---- MODULE Spec2Model ----
(***************************************************************************)
(* Model of the CSS configuration compiler of jay-comp (class Design of    *)
(* src/src/design.ts, version 1.4).                                        *)
(*                                                                         *)
(* A JavaScript string is a sequence of one-character strings, so that     *)
(* endsWith, slice, the camelToKebab regular expression and every          *)
(* template literal are computed character by character.  A JavaScript     *)
(* value is a record tagged with its typeof-like kind in field t.  A       *)
(* number is held in tenths (24 is the number 2.4), which is enough to     *)
(* see how a number is turned into text.  An object is the sequence of     *)
(* its own enumerable properties <<key, value>> in enumeration order       *)
(* (the order of for-in, Object.keys and Object.entries).                  *)
(*                                                                         *)
(* The second part models the rendering of a component (class Comp of      *)
(* src/src/comp.ts): render and update compile what createCSS returns      *)
(* with Design.create and inject the template into the shadow root.  The   *)
(* hooks of the subclass (beforeRender, createHTML, createCSS,             *)
(* afterRender) are the environment: each call may return any value of     *)
(* its type.                                                               *)
(*                                                                         *)
(* The third part follows the life cycle of one component: connecting and  *)
(* disconnecting, the listeners of subscribe (SubSpec), the setters of     *)
(* the reactive properties (PropSpec), and fetchOnce with the reactions    *)
(* to the promise of its loader (FetchSpec).  Each callback that the       *)
(* browser runs on its own (a method call, a promise reaction) is one      *)
(* action.  Event names and keys of Records are plain strings there, as    *)
(* they are only compared.                                                 *)
(***************************************************************************)
EXTENDS Integers, Sequences, FiniteSets, TLC

VARIABLES
    pc,            \* "call": the inputs are chosen; "done": the call returned
    op,            \* the method that is called
    key,           \* argument key of parseProperties / camelToKebab
    value,         \* argument value of parseProperties
    css,           \* argument css of create, as it is when create is called
    cssAfter,      \* the object that argument css refers to, as it is now
    parsed,        \* {propKey, propValue} returned by parseProperties
    kebab,         \* string returned by camelToKebab
    created,       \* outcome of create: the returned text or the thrown error
    shadowRoot,    \* this.shadowRoot.innerHTML of the component
    hooks,         \* the optional hooks that the subclass implements
    called,        \* the method of the component called last, "" before any
    styles,        \* the CSS that the last call compiled
    steps,         \* the steps that the last call ran, in order
    thrown,        \* the error the last call raised to its caller, "" if none
    compiledCSS,   \* what compileCSSObjects gave the last call
    supplied,      \* the arguments <<newHTML, newCSS>> of the last call
    mounted,       \* this.mounted
    listeners,     \* this.listeners: event name -> the listener stored for it
    attached,      \* the event listener list of the element
    unsubscribers_,\* this.unsubscribers_: the stored unsubscribe functions
    subs,          \* the subscribe calls so far: <<name, capture, autoCleanup>>
    connectRenders,\* renders by connectedCallback since the last disconnect
    fields,        \* the own properties of the instance set by the subclass
    properties,    \* this.properties: key -> PropState
    accessors,     \* the accessors that propAccessors defined on the prototype
    seen,          \* this.properties as the getters gave it to the hooks of the last update
    assigned,      \* <<key, slot, value>> of the last assignment through a setter
    asyncStore,    \* this.asyncStore: key -> FetchEntry
    loads,         \* key -> where the promise chain of its loader stands
    loaderCalls,   \* key -> how often a loader was invoked for it
    fetched        \* <<key, entry>> of the last fetchOnce call that returned

designVars == <<pc, op, key, value, css, cssAfter, parsed, kebab, created>>

renderVars ==
    <<shadowRoot, hooks, called, styles, steps, thrown, compiledCSS, supplied>>

subVars == <<mounted, listeners, attached, unsubscribers_, subs, connectRenders>>

propVars == <<fields, properties, accessors, seen, assigned>>

fetchVars == <<asyncStore, loads, loaderCalls, fetched>>

compVars == <<renderVars, subVars, propVars, fetchVars>>

vars == <<designVars, compVars>>

-----------------------------------------------------------------------------
(* Bounds of the checked inputs.                                           *)

MaxKeyLen == 4
MaxNum == 12
MaxArrLen == 2
MaxDecls == 2
MaxEntries == 2
MaxSubs == 3
MaxLoads == 2

-----------------------------------------------------------------------------
(* Characters and strings.                                                 *)

LowerAlpha == <<"a", "b", "c", "d", "e", "f", "g", "h", "i", "j", "k", "l", "m", "n", "o", "p", "q", "r", "s", "t", "u", "v", "w", "x", "y", "z">>
UpperAlpha == <<"A", "B", "C", "D", "E", "F", "G", "H", "I", "J", "K", "L", "M", "N", "O", "P", "Q", "R", "S", "T", "U", "V", "W", "X", "Y", "Z">>
DigitChars == <<"0", "1", "2", "3", "4", "5", "6", "7", "8", "9">>

IsUpper(c) == \E i \in 1..Len(UpperAlpha) : UpperAlpha[i] = c
IsLower(c) == \E i \in 1..Len(LowerAlpha) : LowerAlpha[i] = c
IsDigit(c) == \E i \in 1..Len(DigitChars) : DigitChars[i] = c

toLowerCaseChar(c) ==
    IF IsUpper(c)
    THEN LowerAlpha[CHOOSE i \in 1..Len(UpperAlpha) : UpperAlpha[i] = c]
    ELSE c

toLowerCase(s) == [i \in 1..Len(s) |-> toLowerCaseChar(s[i])]

endsWith(s, k) ==
    /\ Len(k) <= Len(s)
    /\ SubSeq(s, Len(s) - Len(k) + 1, Len(s)) = k

\* s.slice(0, -n) for n > 0
sliceOff(s, n) == IF n >= Len(s) THEN <<>> ELSE SubSeq(s, 1, Len(s) - n)

RECURSIVE join(_, _)
join(parts, sep) ==
    IF Len(parts) = 0 THEN <<>>
    ELSE IF Len(parts) = 1 THEN parts[1]
    ELSE parts[1] \o sep \o join(Tail(parts), sep)

RECURSIVE concat(_)
concat(parts) ==
    IF Len(parts) = 0 THEN <<>> ELSE parts[1] \o concat(Tail(parts))

-----------------------------------------------------------------------------
(* JavaScript values.                                                      *)

Num(n) == [t |-> "number", n |-> n]
Str(s) == [t |-> "string", s |-> s]
Bool(b) == [t |-> "boolean", b |-> b]
Null == [t |-> "null"]
Undefined == [t |-> "undefined"]
Arr(a) == [t |-> "array", a |-> a]
Obj(o) == [t |-> "object", o |-> o]

\* ToBoolean, as used by ?:, ||, ! and if
Truthy(v) ==
    CASE v.t = "number" -> v.n # 0
      [] v.t = "string" -> Len(v.s) > 0
      [] v.t = "boolean" -> v.b
      [] v.t = "null" -> FALSE
      [] v.t = "undefined" -> FALSE
      [] OTHER -> TRUE

RECURSIVE DigitsOf(_)
DigitsOf(n) ==
    IF n < 10 THEN <<DigitChars[n + 1]>>
    ELSE DigitsOf(n \div 10) \o <<DigitChars[(n % 10) + 1]>>

\* Number::toString of the number n / 10
NumberToString(n) ==
    LET a == IF n < 0 THEN 0 - n ELSE n
    IN  (IF n < 0 THEN <<"-">> ELSE <<>>)
        \o DigitsOf(a \div 10)
        \o (IF a % 10 = 0 THEN <<>> ELSE <<".">> \o <<DigitChars[(a % 10) + 1]>>)

\* StringOf, as applied by String(v) and by `${v}`
RECURSIVE StringOf(_)
StringOf(v) ==
    CASE v.t = "number" -> NumberToString(v.n)
      [] v.t = "string" -> v.s
      [] v.t = "boolean" -> IF v.b THEN <<"t", "r", "u", "e">> ELSE <<"f", "a", "l", "s", "e">>
      [] v.t = "null" -> <<"n", "u", "l", "l">>
      [] v.t = "undefined" -> <<"u", "n", "d", "e", "f", "i", "n", "e", "d">>
      [] v.t = "array" ->
            join([i \in 1..Len(v.a) |->
                    IF v.a[i].t \in {"null", "undefined"} THEN <<>>
                    ELSE StringOf(v.a[i])], <<",">>)
      [] OTHER -> <<"[", "o", "b", "j", "e", "c", "t", " ", "O", "b", "j", "e", "c", "t", "]">>

\* obj[k]: the value of property k, undefined when the object has none
Get(o, k) ==
    IF \E i \in 1..Len(o) : o[i][1] = k
    THEN o[CHOOSE i \in 1..Len(o) : o[i][1] = k][2]
    ELSE Undefined

Has(o, k) == \E i \in 1..Len(o) : o[i][1] = k

\* Object.entries(v) of a value that is not null or undefined
entries(v) ==
    CASE v.t = "object" -> v.o
      [] v.t = "array" -> [i \in 1..Len(v.a) |-> <<DigitsOf(i - 1), v.a[i]>>]
      [] v.t = "string" -> [i \in 1..Len(v.s) |-> <<DigitsOf(i - 1), Str(<<v.s[i]>>)>>]
      [] OTHER -> <<>>

-----------------------------------------------------------------------------
(* camelToKebab and americanise.                                           *)

\* The regular expression /([a-z0-9])([A-Z])/ matched at the characters a, b.
kebabBoundary_caseTypo(a, b) == (IsLower(a) \/ IsDigit(a)) /\ IsLower(b)

kebabBoundary(a, b) == (IsLower(a) \/ IsDigit(a)) /\ IsUpper(b)

\* key.replace(/([a-z0-9])([A-Z])/g, '$1-$2'): the scan resumes after a match
RECURSIVE insertHyphens(_)
insertHyphens(s) ==
    IF Len(s) < 2 THEN s
    ELSE IF kebabBoundary(s[1], s[2])
         THEN <<s[1], "-", s[2]>> \o insertHyphens(Tail(Tail(s)))
         ELSE <<s[1]>> \o insertHyphens(Tail(s))

camelToKebab(k) == toLowerCase(insertHyphens(k))

convert ==
    << <<<<"c", "o", "l", "o", "u", "r">>, <<"c", "o", "l", "o", "r">>>>,
       <<<<"c", "e", "n", "t", "r", "e">>, <<"c", "e", "n", "t", "e", "r">>>>,
       <<<<"g", "r", "e", "y">>, <<"g", "r", "a", "y">>>>,
       <<<<"b", "e", "h", "a", "v", "i", "o", "u", "r">>, <<"b", "e", "h", "a", "v", "i", "o", "r">>>> >>

\* convert[textValue] || textValue, for a text that names no property
\* inherited from Object.prototype
americanise(variable) ==
    LET textValue == StringOf(variable)
    IN  IF \E i \in 1..Len(convert) : convert[i][1] = textValue
        THEN convert[CHOOSE i \in 1..Len(convert) : convert[i][1] = textValue][2]
        ELSE textValue

-----------------------------------------------------------------------------
(* parseProperties.                                                        *)

\* The operator table, in the order of Object.keys(OPERATORS).
OPERATORS ==
    << <<<<"P", "e", "r", "c", "e", "n", "t">>, <<"%">>>>, <<<<"V", "a", "r">>, <<"v", "a", "r">>>>, <<<<"U", "r", "l">>, <<"u", "r", "l">>>>,
       <<<<"C", "a", "l", "c">>, <<"c", "a", "l", "c">>>>, <<<<"E", "m">>, <<"e", "m">>>>, <<<<"R", "e", "m">>, <<"r", "e", "m">>>>,
       <<<<"V", "w">>, <<"v", "w">>>>, <<<<"V", "h">>, <<"v", "h">>>>, <<<<"V", "m", "i", "n">>, <<"v", "m", "i", "n">>>>,
       <<<<"V", "m", "a", "x">>, <<"v", "m", "a", "x">>>>, <<<<"C", "h">>, <<"c", "h">>>>, <<<<"E", "x">>, <<"e", "x">>>>,
       <<<<"P", "t">>, <<"p", "t">>>>, <<<<"P", "c">>, <<"p", "c">>>>, <<<<"I", "n">>, <<"i", "n">>>>,
       <<<<"C", "m">>, <<"c", "m">>>>, <<<<"M", "m">>, <<"m", "m">>>>, <<<<"F", "r">>, <<"f", "r">>>>,
       <<<<"S">>, <<"s">>>>, <<<<"M", "s">>, <<"m", "s">>>>, <<<<"D", "e", "g">>, <<"d", "e", "g">>>>,
       <<<<"R", "a", "d">>, <<"r", "a", "d">>>>, <<<<"G", "r", "a", "d">>, <<"g", "r", "a", "d">>>>, <<<<"T", "u", "r", "n">>, <<"t", "u", "r", "n">>>>,
       <<<<"D", "p", "i">>, <<"d", "p", "i">>>>, <<<<"D", "p", "c", "m">>, <<"d", "p", "c", "m">>>>, <<<<"D", "p", "p", "x">>, <<"d", "p", "p", "x">>>>,
       <<<<"Q">>, <<"q">>>>, <<<<"H", "z">>, <<"H", "z">>>>, <<<<"K", "H", "z">>, <<"k", "H", "z">>>> >>

UNITLESS_PROPERTIES ==
    { <<"o", "p", "a", "c", "i", "t", "y">>, <<"z", "-", "i", "n", "d", "e", "x">>, <<"l", "i", "n", "e", "-", "h", "e", "i", "g", "h", "t">>, <<"f", "o", "n", "t", "-", "w", "e", "i", "g", "h", "t">>,
      <<"f", "l", "e", "x">>, <<"o", "r", "d", "e", "r">>, <<"f", "l", "e", "x", "-", "g", "r", "o", "w">>, <<"f", "l", "e", "x", "-", "s", "h", "r", "i", "n", "k">>, <<"g", "r", "i", "d", "-", "r", "o", "w">>,
      <<"g", "r", "i", "d", "-", "c", "o", "l", "u", "m", "n">>, <<"c", "o", "l", "u", "m", "n", "-", "c", "o", "u", "n", "t">>, <<"w", "i", "d", "o", "w", "s">>, <<"o", "r", "p", "h", "a", "n", "s">>, <<"t", "a", "b", "-", "s", "i", "z", "e">> }

\* The loop over Object.keys(OPERATORS) from the i-th operator on: the index
\* of the first operator the key ends with (the loop breaks there), 0 when
\* the key ends with none.
RECURSIVE scanOperators(_, _)
scanOperators(k, i) ==
    IF i > Len(OPERATORS) THEN 0
    ELSE IF endsWith(k, OPERATORS[i][1]) THEN i
    ELSE scanOperators(k, i + 1)

matchOperator(k) == scanOperators(k, 1)

\* The branch of a string value.
stringValue_alwaysRaw(v, suffix) == v.s

stringValue(v, suffix) ==
    IF suffix = <<"V", "a", "r">> THEN <<"v", "a", "r", "(", "-", "-">> \o v.s \o <<")">>
    ELSE IF suffix = <<"U", "r", "l">> THEN <<"u", "r", "l", "(">> \o v.s \o <<")">>
    ELSE IF suffix = <<"C", "a", "l", "c">> THEN <<"c", "a", "l", "c", "(">> \o v.s \o <<")">>
    ELSE v.s

\* The last branch: a value that is no array, not the number 0 and no string.
otherValue_rawKey(v, unit, propKey, rawKey) ==
    IF Len(unit) > 0 THEN StringOf(v) \o unit
    ELSE IF rawKey \in UNITLESS_PROPERTIES THEN StringOf(v)
    ELSE StringOf(v) \o <<"p", "x">>

otherValue_noDefaultUnit(v, unit, propKey, rawKey) ==
    IF Len(unit) > 0 THEN StringOf(v) \o unit
    ELSE StringOf(v)

otherValue(v, unit, propKey, rawKey) ==
    IF Len(unit) > 0 THEN StringOf(v) \o unit
    ELSE IF propKey \in UNITLESS_PROPERTIES THEN StringOf(v)
    ELSE StringOf(v) \o <<"p", "x">>

\* The test of the second branch.
isZero_unitFirst(v, unit) == v.t = "number" /\ v.n = 0 /\ Len(unit) = 0

isZero(v, unit) == v.t = "number" /\ v.n = 0

\* The key under which the elements of an array value are resolved.
elementKey_dropSuffix(propKey, suffix) == propKey

elementKey(propKey, suffix) == propKey \o suffix

RECURSIVE parseProperties(_, _)

\* The branches on the value, once suffix, unit and propKey are known.
propertyValue(v, suffix, unit, propKey, stripped) ==
    IF v.t = "array"
    THEN join([i \in 1..Len(v.a) |->
                parseProperties(elementKey(propKey, suffix), v.a[i]).propValue],
              <<" ">>)
    ELSE IF isZero(v, unit) THEN <<"0">>
    ELSE IF v.t = "string" THEN stringValue(v, suffix)
    ELSE otherValue(v, unit, propKey, stripped)

\* propKey = this.camelToKebab(key), key being the stripped key
resolveStripped(v, suffix, unit, stripped, propKey) ==
    [propKey |-> propKey,
     propValue |-> propertyValue(v, suffix, unit, propKey, stripped)]

\* suffix, unit and key as the loop leaves them; m is the matched operator
resolveMatched(k, v, m) ==
    IF m = 0
    THEN resolveStripped(v, <<>>, <<>>, k, camelToKebab(k))
    ELSE resolveStripped(v, OPERATORS[m][1], OPERATORS[m][2],
                         sliceOff(k, Len(OPERATORS[m][1])),
                         camelToKebab(sliceOff(k, Len(OPERATORS[m][1]))))

parseProperties(k, v) == resolveMatched(k, v, matchOperator(k))

-----------------------------------------------------------------------------
(* create, compileCSS, compileMedia, compileKeyframes.                     *)
(* A call either returns a text or throws an error.                        *)

Return(text) == [ok |-> TRUE, text |-> text, error |-> ""]
Throw(message) == [ok |-> FALSE, text |-> <<>>, error |-> message]

\* The keys that the loop of compileCSS skips.
ReservedKeys_noMedia == { <<"c", "l", "a", "s", "s">>, <<"p", "s", "e", "u", "d", "o", "C", "l", "a", "s", "s">>, <<"k", "e", "y", "f", "r", "a", "m", "e", "s">> }

ReservedKeys == { <<"c", "l", "a", "s", "s">>, <<"p", "s", "e", "u", "d", "o", "C", "l", "a", "s", "s">>, <<"m", "e", "d", "i", "a">>, <<"k", "e", "y", "f", "r", "a", "m", "e", "s">> }

\* `\n  ${this.americanise(propKey)}: ${this.americanise(propValue)};`
declarationLine_valueOnly(p) ==
    <<"\n", " ", " ">> \o p.propKey \o <<":", " ">> \o americanise(Str(p.propValue)) \o <<";">>

declarationLine(p) ==
    <<"\n", " ", " ">> \o americanise(Str(p.propKey)) \o <<":", " ">>
        \o americanise(Str(p.propValue)) \o <<";">>

\* One pass of the loop of compileCSS over a property that is not skipped.
declaration(k, v) == declarationLine(parseProperties(k, v))

RECURSIVE compileCSS(_)
compileCSS(o) ==
    IF Len(o) = 0 THEN <<>>
    ELSE (IF o[1][1] \in ReservedKeys THEN <<>> ELSE declaration(o[1][1], o[1][2]))
         \o compileCSS(Tail(o))

\* /^\d+%$/.test(step)
isPercentStep_percentOptional(step) ==
    /\ Len(step) >= 1
    /\ \A i \in 1..(Len(step) - 1) : IsDigit(step[i])
    /\ IsDigit(step[Len(step)]) \/ (step[Len(step)] = "%" /\ Len(step) >= 2)

isPercentStep(step) ==
    /\ Len(step) >= 2
    /\ step[Len(step)] = "%"
    /\ \A i \in 1..(Len(step) - 1) : IsDigit(step[i])

normaliseKeyframe(step) ==
    IF toLowerCase(step) = <<"f", "r", "o", "m">> \/ toLowerCase(step) = <<"t", "o">>
    THEN Return(toLowerCase(step))
    ELSE IF isPercentStep(step) THEN Return(step)
    ELSE Throw("Invalid keyframe step. Use \"from\", \"to\", or \"NN%\".")

\* `    ${propKey}: ${propValue};`
keyframeLine(p) == <<" ", " ", " ", " ">> \o p.propKey \o <<":", " ">> \o p.propValue \o <<";">>

\* Object.entries(declarations).map(...).join("\n")
keyframeProps(e) ==
    join([i \in 1..Len(e) |-> keyframeLine(parseProperties(e[i][1], e[i][2]))], <<"\n">>)

\* The body of the outer map of compileKeyframes, stepName being the outcome
\* of normaliseKeyframe(step).
keyframeBlockOf(stepName, declarations) ==
    IF ~stepName.ok THEN stepName
    ELSE IF declarations.t \in {"null", "undefined"}
    THEN Throw("TypeError: Cannot convert undefined or null to object")
    ELSE Return(<<" ", " ">> \o stepName.text \o <<" ", "{", "\n">>
                \o keyframeProps(entries(declarations)) \o <<"\n", " ", " ", "}">>)

keyframeBlock(step, declarations) ==
    keyframeBlockOf(normaliseKeyframe(step), declarations)

\* const { name, ...steps } = config, and the map over Object.entries(steps)
keyframeBlocks(config) ==
    [i \in 1..Len(SelectSeq(config, LAMBDA e : e[1] # <<"n", "a", "m", "e">>)) |->
        keyframeBlock(SelectSeq(config, LAMBDA e : e[1] # <<"n", "a", "m", "e">>)[i][1],
                      SelectSeq(config, LAMBDA e : e[1] # <<"n", "a", "m", "e">>)[i][2])]

firstThrow(blocks) ==
    blocks[CHOOSE i \in 1..Len(blocks) :
                /\ ~blocks[i].ok
                /\ \A j \in 1..(i - 1) : blocks[j].ok]

keyframesOf_undefinedOnly(name, blocks) ==
    IF name.t = "undefined" THEN Throw("Keyframes config must include a name")
    ELSE IF \E i \in 1..Len(blocks) : ~blocks[i].ok THEN firstThrow(blocks)
    ELSE Return(<<"@", "k", "e", "y", "f", "r", "a", "m", "e", "s", " ">> \o StringOf(name) \o <<" ", "{", "\n">>
                \o join([i \in 1..Len(blocks) |-> blocks[i].text], <<"\n">>)
                \o <<"\n", "}">>)

keyframesOf(name, blocks) ==
    IF ~Truthy(name) THEN Throw("Keyframes config must include a name")
    ELSE IF \E i \in 1..Len(blocks) : ~blocks[i].ok THEN firstThrow(blocks)
    ELSE Return(<<"@", "k", "e", "y", "f", "r", "a", "m", "e", "s", " ">> \o StringOf(name) \o <<" ", "{", "\n">>
                \o join([i \in 1..Len(blocks) |-> blocks[i].text], <<"\n">>)
                \o <<"\n", "}">>)

compileKeyframes(config) == keyframesOf(Get(config, <<"n", "a", "m", "e">>), keyframeBlocks(config))

isBreakpointKey(k) == endsWith(toLowerCase(k), <<"b", "p">>)

parseBreakpoint(k, val) == parseProperties(sliceOff(k, 2), val)

\* Object.entries(media).find(([k]) => k.toLowerCase().endsWith("bp"))
findBreakpoint(media) ==
    media[CHOOSE i \in 1..Len(media) :
                /\ isBreakpointKey(media[i][1])
                /\ \A j \in 1..(i - 1) : ~isBreakpointKey(media[j][1])]

\* a || b
orElse(a, b) == IF Truthy(a) THEN a ELSE b

\* `.${cls}${pseudo ? `:${pseudo}` : ""}`
mediaSelector_noPseudo(cls, pseudo) == <<".">> \o StringOf(cls)

mediaSelector(cls, pseudo) ==
    <<".">> \o StringOf(cls) \o (IF Truthy(pseudo) THEN <<":">> \o StringOf(pseudo) ELSE <<>>)

mediaBlock(heading, selector, innerCSS) ==
    <<"\n", "@", "m", "e", "d", "i", "a", " ", "(">> \o heading.propKey \o <<":", " ">> \o heading.propValue
        \o <<")", " ", "{", "\n", " ", " ">> \o selector \o <<" ", "{", "\n", " ", " ", " ", " ">> \o innerCSS \o <<"\n", " ", " ", "}", "\n", "}">>

\* inner: the copy of media from which every key that ends with "bp" is deleted
withoutBreakpoints_foundOnly(media) ==
    SelectSeq(media, LAMBDA e : e # findBreakpoint(media))

withoutBreakpoints(media) == SelectSeq(media, LAMBDA e : ~isBreakpointKey(e[1]))

\* The objects that compileMedia holds are kept in a sequence; an object is
\* referred to by its index.  const inner = { ...media } creates an object
\* with the properties of the object at index ref: the outcome is the new
\* sequence and the index that inner refers to.
spread_sameObject(objects, ref) == <<objects, ref>>

spread(objects, ref) == <<Append(objects, objects[ref]), Len(objects) + 1>>

\* for (const k of Object.keys(media)) if (k.toLowerCase().endsWith("bp"))
\*     delete inner[k]
\* for inner = copied[2] among the objects copied[1]
deleteBreakpoints(copied) ==
    [copied[1] EXCEPT ![copied[2]] = withoutBreakpoints(copied[1][copied[2]])]

\* The object that the parameter media refers to when compileMedia ends: the
\* call throws before it copies if no key ends with "bp".
mediaAfter(media) ==
    IF ~\E i \in 1..Len(media) : isBreakpointKey(media[i][1])
    THEN media
    ELSE deleteBreakpoints(spread(<<media>>, 1))[1]

mediaOf(media, bp, parentClass, parentPseudo) ==
    Return(mediaBlock(
        parseBreakpoint(bp[1], bp[2]),
        mediaSelector(orElse(Get(media, <<"c", "l", "a", "s", "s">>), parentClass),
                      orElse(Get(media, <<"p", "s", "e", "u", "d", "o", "C", "l", "a", "s", "s">>), parentPseudo)),
        compileCSS(withoutBreakpoints(media))))

compileMedia(media, parentClass, parentPseudo) ==
    IF ~\E i \in 1..Len(media) : isBreakpointKey(media[i][1])
    THEN Throw("Media config must include a *Bp key")
    ELSE mediaOf(media, findBreakpoint(media), parentClass, parentPseudo)

\* The selector of the base rule, `${selector ? `.${selector}` : ':host'}`,
\* for the values of css.class and css.pseudoClass
selectorOf_noDot(cls, pseudo) ==
    IF Truthy(pseudo) THEN StringOf(cls) \o <<":">> \o StringOf(pseudo)
    ELSE IF Truthy(cls) THEN StringOf(cls)
    ELSE <<":", "h", "o", "s", "t">>

selectorOf(cls, pseudo) ==
    IF Truthy(pseudo) THEN <<".">> \o StringOf(cls) \o <<":">> \o StringOf(pseudo)
    ELSE IF Truthy(cls) THEN <<".">> \o StringOf(cls)
    ELSE <<":", "h", "o", "s", "t">>

baseRule(o) ==
    <<"\n">> \o selectorOf(Get(o, <<"c", "l", "a", "s", "s">>), Get(o, <<"p", "s", "e", "u", "d", "o", "C", "l", "a", "s", "s">>))
        \o <<" ", "{">> \o compileCSS(o) \o <<"}", "\n">>

\* css.x && typeof css.x === "object" && !Array.isArray(css.x)
isPlainObject(v) == Truthy(v) /\ v.t = "object"

mediaPart(o, media) ==
    IF isPlainObject(media)
    THEN compileMedia(media.o, Get(o, <<"c", "l", "a", "s", "s">>), Get(o, <<"p", "s", "e", "u", "d", "o", "C", "l", "a", "s", "s">>))
    ELSE Return(<<>>)

keyframesPart(keyframes) ==
    IF isPlainObject(keyframes) THEN compileKeyframes(keyframes.o) ELSE Return(<<>>)

\* cssText, built from the base rule and the outcomes of the two blocks
createOf_skipFailedMedia(base, mediaText, keyframesText) ==
    IF ~keyframesText.ok THEN keyframesText
    ELSE Return(base \o mediaText.text \o keyframesText.text)

createOf_keyframesFirst(base, mediaText, keyframesText) ==
    IF ~mediaText.ok THEN mediaText
    ELSE IF ~keyframesText.ok THEN keyframesText
    ELSE Return(base \o keyframesText.text \o mediaText.text)

createOf(base, mediaText, keyframesText) ==
    IF ~mediaText.ok THEN mediaText
    ELSE IF ~keyframesText.ok THEN keyframesText
    ELSE Return(base \o mediaText.text \o keyframesText.text)

\* The object that the parameter css refers to when create ends: compileCSS
\* and compileKeyframes only read their parameter (const { name, ...steps } =
\* config creates a new object), and compileMedia is called for css.media.
configAfterCreate(o) ==
    [i \in 1..Len(o) |->
        IF o[i][1] = <<"m", "e", "d", "i", "a">> /\ isPlainObject(o[i][2])
        THEN <<o[i][1], Obj(mediaAfter(o[i][2].o))>>
        ELSE o[i]]

create(o) ==
    createOf(baseRule(o), mediaPart(o, Get(o, <<"m", "e", "d", "i", "a">>)),
             keyframesPart(Get(o, <<"k", "e", "y", "f", "r", "a", "m", "e", "s">>)))

-----------------------------------------------------------------------------
(* The inputs the calls are checked on.                                    *)

SeqsUpTo(S, n) == UNION { [1..m -> S] : m \in 0..n }

Alphabet == {"a", "B", "-", "1"}

SampleKeys ==
    { <<"r", "o", "t", "a", "t", "e">>, <<"s", "i", "g", "n", "a", "l">>, <<"z", "I", "n", "d", "e", "x">>, <<"o", "p", "a", "c", "i", "t", "y">>, <<"m", "a", "r", "g", "i", "n", "T", "o", "p">>, <<"c", "o", "l", "o", "u", "r">>,
      <<"l", "i", "n", "e", "H", "e", "i", "g", "h", "t">>, <<"w", "i", "d", "t", "h">>, <<"a", "u", "d", "i", "o", "R", "a", "t", "e">>, <<"g", "r", "i", "d", "R", "o", "w">>, <<"h", "1", "S", "i", "z", "e">>, <<"b", "a", "c", "k", "g", "r", "o", "u", "n", "d">> }

KebabKeys ==
    SeqsUpTo(Alphabet, MaxKeyLen) \cup SampleKeys
        \cup { camelToKebab(k) : k \in SampleKeys }
        \cup { <<"b", "o", "r", "d", "e", "r", "T", "o", "p", "L", "e", "f", "t", "R", "a", "d", "i", "u", "s">>, <<"X", "M", "L", "H", "t", "t", "p", "R", "e", "q", "u", "e", "s", "t">>, <<"t", "a", "b", "-", "s", "i", "z", "e">> }

BaseKeys == SampleKeys \cup SeqsUpTo(Alphabet, 1)

Suffixes ==
    { OPERATORS[i][1] : i \in 1..Len(OPERATORS) } \cup { <<>>, <<"B", "p">>, <<"P", "x">> }

ParseKeys == { b \o s : b \in BaseKeys, s \in Suffixes }

SampleNumbers == { 24, 450, 750, 6000 }

Scalars ==
    { Num(n) : n \in (0 - MaxNum)..MaxNum } \cup { Num(n) : n \in SampleNumbers }
        \cup { Str(s) : s \in { <<>>, <<"f", "l", "e", "x">>, <<"g", "r", "e", "y">>, <<"b", "l", "u", "e", "1", "0", "0">>, <<"1", "0", "0", "%", " ", "-", " ", "3", "2", "p", "x">> } }
        \cup { Bool(TRUE), Bool(FALSE), Null, Undefined }

ArrayKeys ==
    { <<"p", "a", "d", "d", "i", "n", "g">>, <<"m", "a", "r", "g", "i", "n", "P", "e", "r", "c", "e", "n", "t">>, <<"z", "I", "n", "d", "e", "x">>, <<"s", "i", "g", "n", "a", "l", "K", "H", "z">>, <<"b", "a", "c", "k", "g", "r", "o", "u", "n", "d", "V", "a", "r">> }

FlatElements == { Num(0), Num(15), Num(160), Str(<<"a", "u", "t", "o">>), Bool(TRUE) }

NestElements == { Num(0), Num(15) }

FlatArrays == { Arr(a) : a \in SeqsUpTo(FlatElements, MaxArrLen) }

Nest1 == { Arr(a) : a \in SeqsUpTo(NestElements, 2) }

Nest2 == { Arr(a) : a \in SeqsUpTo(NestElements \cup Nest1, MaxArrLen) }

Nest3 == { Arr(<<a, Str(<<"a", "u", "t", "o">>)>>) : a \in { b \in Nest2 : Len(b.a) <= 2 } }

Arrays == FlatArrays \cup Nest2 \cup Nest3

ParseInputs == (ParseKeys \X Scalars) \cup (ArrayKeys \X Arrays)

DeclPool ==
    { <<<<"p", "a", "d", "d", "i", "n", "g">>, Num(100)>>,
      <<<<"o", "p", "a", "c", "i", "t", "y">>, Num(8)>>,
      <<<<"c", "o", "l", "o", "u", "r">>, Str(<<"g", "r", "e", "y">>)>>,
      <<<<"c", "o", "l", "o", "r">>, Str(<<"g", "r", "a", "y">>)>>,
      <<<<"b", "a", "c", "k", "g", "r", "o", "u", "n", "d", "V", "a", "r">>, Str(<<"b", "l", "u", "e", "1", "0", "0">>)>>,
      <<<<"t", "e", "x", "t", "A", "l", "i", "g", "n">>, Str(<<"c", "e", "n", "t", "r", "e">>)>>,
      <<<<"b", "e", "h", "a", "v", "i", "o", "u", "r">>, Str(<<"s", "m", "o", "o", "t", "h">>)>> }

DeclLists ==
    { d \in SeqsUpTo(DeclPool, MaxDecls) :
        \A i, j \in 1..Len(d) : i # j => d[i][1] # d[j][1] }

ClassOptions == { <<>>, << <<<<"c", "l", "a", "s", "s">>, Str(<<"b", "o", "x">>)>> >> }

PseudoOptions == { <<>>, << <<<<"p", "s", "e", "u", "d", "o", "C", "l", "a", "s", "s">>, Str(<<"h", "o", "v", "e", "r">>)>> >> }

MediaConfigs ==
    { Obj(<< <<<<"m", "a", "x", "W", "i", "d", "t", "h", "B", "p">>, Num(6000)>>,
             <<<<"p", "a", "d", "d", "i", "n", "g">>, Arr(<<Num(160), Num(320)>>)>> >>),
      Obj(<< <<<<"p", "a", "d", "d", "i", "n", "g">>, Num(160)>> >>),
      Obj(<< <<<<"c", "l", "a", "s", "s">>, Str(<<"m">>)>>, <<<<"m", "a", "x", "W", "i", "d", "t", "h", "B", "p">>, Num(6000)>>,
             <<<<"p", "s", "e", "u", "d", "o", "C", "l", "a", "s", "s">>, Str(<<"f", "o", "c", "u", "s">>)>>, <<<<"c", "o", "l", "o", "u", "r">>, Str(<<"g", "r", "e", "y">>)>> >>),
      Obj(<< <<<<"m", "i", "n", "W", "i", "d", "t", "h", "B", "p">>, Num(3200)>>, <<<<"m", "a", "r", "g", "i", "n">>, Num(0)>>,
             <<<<"m", "a", "x", "W", "i", "d", "t", "h", "B", "p">>, Num(6000)>> >>),
      Obj(<< <<<<"m", "i", "n", "W", "i", "d", "t", "h", "E", "m", "B", "p">>, Num(480)>>, <<<<"m", "e", "d", "i", "a">>, Str(<<"s", "c", "r", "e", "e", "n">>)>>,
             <<<<"k", "e", "y", "f", "r", "a", "m", "e", "s">>, Num(10)>>, <<<<"t", "e", "x", "t", "A", "l", "i", "g", "n">>, Str(<<"c", "e", "n", "t", "r", "e">>)>> >>),
      Obj(<< <<<<"g", "a", "p">>, Num(80)>>, <<<<"h", "e", "i", "g", "h", "t", "V", "h", "B", "P">>, Num(0)>> >>),
      Obj(<< >>),
      Str(<<"p", "r", "i", "n", "t">>) }

KeyframesConfigs ==
    { Obj(<< <<<<"n", "a", "m", "e">>, Str(<<"f", "a", "d", "e", "-", "i", "n">>)>>,
             <<<<"f", "r", "o", "m">>, Obj(<< <<<<"o", "p", "a", "c", "i", "t", "y">>, Num(0)>> >>)>>,
             <<<<"t", "o">>, Obj(<< <<<<"o", "p", "a", "c", "i", "t", "y">>, Num(10)>> >>)>> >>),
      Obj(<< <<<<"f", "r", "o", "m">>, Obj(<< <<<<"o", "p", "a", "c", "i", "t", "y">>, Num(0)>> >>)>> >>),
      Obj(<< <<<<"5", "0">>, Obj(<< <<<<"o", "p", "a", "c", "i", "t", "y">>, Num(5)>> >>)>>,
             <<<<"n", "a", "m", "e">>, Str(<<"p", "u", "l", "s", "e">>)>> >>),
      Obj(<< <<<<"n", "a", "m", "e">>, Str(<<"p", "u", "l", "s", "e">>)>>,
             <<<<"0", "%">>, Obj(<< <<<<"w", "i", "d", "t", "h", "P", "e", "r", "c", "e", "n", "t">>, Num(500)>> >>)>>,
             <<<<"h", "a", "l", "f">>, Obj(<< <<<<"o", "p", "a", "c", "i", "t", "y">>, Num(5)>> >>)>>,
             <<<<"T", "o">>, Obj(<< <<<<"c", "o", "l", "o", "u", "r">>, Str(<<"g", "r", "e", "y">>)>> >>)>> >>),
      Obj(<< <<<<"n", "a", "m", "e">>, Str(<<"t", "i", "n", "t">>)>>,
             <<<<"F", "R", "O", "M">>, Obj(<< <<<<"c", "o", "l", "o", "u", "r">>, Str(<<"g", "r", "e", "y">>)>> >>)>>,
             <<<<"1", "0", "0", "%">>, Obj(<< <<<<"m", "a", "r", "g", "i", "n", "T", "o", "p">>, Arr(<<Num(0), Num(80)>>)>> >>)>> >>),
      Obj(<< <<<<"n", "a", "m", "e">>, Str(<<>>)>>,
             <<<<"t", "o">>, Obj(<< <<<<"o", "p", "a", "c", "i", "t", "y">>, Num(10)>> >>)>> >>),
      Obj(<< <<<<"h", "a", "l", "f">>, Obj(<< <<<<"o", "p", "a", "c", "i", "t", "y">>, Num(5)>> >>)>> >>),
      Obj(<< <<<<"n", "a", "m", "e">>, Str(<<"s", "p", "i", "n">>)>>,
             <<<<"f", "r", "o", "m">>, Obj(<< <<<<"r", "o", "t", "a", "t", "e", "D", "e", "g">>, Num(0)>> >>)>>,
             <<<<"5", "0", "%">>, Obj(<< <<<<"r", "o", "t", "a", "t", "e", "D", "e", "g">>, Num(1800)>>,
                              <<<<"o", "p", "a", "c", "i", "t", "y">>, Num(5)>> >>)>>,
             <<<<"e", "n", "d">>, Obj(<< <<<<"r", "o", "t", "a", "t", "e", "D", "e", "g">>, Num(3600)>> >>)>> >>) }

MediaOptions == { <<>> } \cup { << <<<<"m", "e", "d", "i", "a">>, m>> >> : m \in MediaConfigs }

KeyframesOptions ==
    { <<>> } \cup { << <<<<"k", "e", "y", "f", "r", "a", "m", "e", "s">>, k>> >> : k \in KeyframesConfigs }

Configs ==
    { c \o d \o p :
        c \in ClassOptions, d \in DeclLists, p \in PseudoOptions }
    \cup
    { c \o d \o p \o m \o k :
        c \in ClassOptions, d \in { e \in DeclLists : Len(e) <= 1 },
        p \in PseudoOptions, m \in MediaOptions, k \in KeyframesOptions }

-----------------------------------------------------------------------------
(* The calls.                                                              *)

NoResult == [propKey |-> <<>>, propValue |-> <<>>]

\* The keys that fetchOnce is called with.
FetchKeys == { "fact", "user", "toString" }

\* A component that was never connected and has no listener.
NoSubs ==
    /\ mounted = FALSE
    /\ listeners = {}
    /\ attached = {}
    /\ unsubscribers_ = <<>>
    /\ subs = <<>>
    /\ connectRenders = 0

\* A component without reactive properties.
NoProps ==
    /\ fields = {}
    /\ properties = {}
    /\ accessors = [wired |-> FALSE, keys |-> {}]
    /\ seen = {}
    /\ assigned = <<>>

\* A component on which fetchOnce was never called.
NoFetches ==
    /\ asyncStore = {}
    /\ loads = {}
    /\ loaderCalls = [k \in FetchKeys |-> 0]
    /\ fetched = <<>>

NoLife == NoSubs /\ NoProps /\ NoFetches

\* A component on which no method has been called.
NoComp ==
    /\ shadowRoot = <<>>
    /\ hooks = {}
    /\ called = ""
    /\ styles = Undefined
    /\ steps = <<>>
    /\ thrown = ""
    /\ compiledCSS = Return(<<>>)
    /\ supplied = <<>>
    /\ NoLife

Init ==
    /\ pc = "call"
    /\ NoComp
    /\ parsed = NoResult
    /\ kebab = <<>>
    /\ created = Return(<<>>)
    /\ \/ /\ op = "parseProperties"
          /\ \E inp \in ParseInputs : key = inp[1] /\ value = inp[2]
          /\ css = <<>>
       \/ /\ op = "camelToKebab"
          /\ key \in KebabKeys
          /\ value = Undefined
          /\ css = <<>>
       \/ /\ op = "create"
          /\ key = <<>>
          /\ value = Undefined
          /\ css \in Configs
    /\ cssAfter = css

ParseProperties ==
    /\ pc = "call"
    /\ op = "parseProperties"
    /\ parsed' = parseProperties(key, value)
    /\ pc' = "done"
    /\ UNCHANGED <<op, key, value, css, cssAfter, kebab, created>>
    /\ UNCHANGED compVars

CamelToKebab ==
    /\ pc = "call"
    /\ op = "camelToKebab"
    /\ kebab' = camelToKebab(key)
    /\ pc' = "done"
    /\ UNCHANGED <<op, key, value, css, cssAfter, parsed, created>>
    /\ UNCHANGED compVars

Create ==
    /\ pc = "call"
    /\ op = "create"
    /\ created' = create(css)
    /\ cssAfter' = configAfterCreate(css)
    /\ pc' = "done"
    /\ UNCHANGED <<op, key, value, css, parsed, kebab>>
    /\ UNCHANGED compVars

Next == ParseProperties \/ CamelToKebab \/ Create

Spec == Init /\ [][Next]_vars

-----------------------------------------------------------------------------
(* Comp: render, update, compileCSSObjects, flatten, createTemplate.       *)

\* Design.defaultComp() of a component: hostOverride_ is never set, so the
\* text is resetStyles() + defaultHost() + defaultFontStyle().
defaultComp ==
    <<"\n", "*", " ", "{", "m", "a", "r", "g", "i", "n", ":", " ", "0", ";", " ", "p", "a", "d", "d", "i", "n", "g", ":", " ", "0", ";", "}">>
    \o <<"\n", ":", "h", "o", "s", "t", " ", "{", "d", "i", "s", "p", "l", "a", "y", ":", " ", "b", "l", "o", "c", "k", ";", " ", "w", "i", "d", "t", "h", ":", " ", "1", "0", "0", "%", ";", " ", "b", "o", "x", "-", "s", "i", "z", "i", "n", "g", ":", " ", "b", "o", "r", "d", "e", "r", "-", "b", "o", "x", ";", "}">>
    \o <<"\n", "h", "1", " ", "{", "f", "o", "n", "t", "-", "s", "i", "z", "e", ":", " ", "5", "7", "p", "x", ";", " ", "f", "o", "n", "t", "-", "w", "e", "i", "g", "h", "t", ":", " ", "5", "0", "0", ";", " ", "l", "i", "n", "e", "-", "h", "e", "i", "g", "h", "t", ":", " ", "6", "4", "p", "t", ";", "}">>
    \o <<"\n", "h", "2", " ", "{", "f", "o", "n", "t", "-", "s", "i", "z", "e", ":", " ", "4", "5", "p", "x", ";", " ", "f", "o", "n", "t", "-", "w", "e", "i", "g", "h", "t", ":", " ", "5", "0", "0", ";", " ", "l", "i", "n", "e", "-", "h", "e", "i", "g", "h", "t", ":", " ", "5", "2", "p", "t", ";", "}">>
    \o <<"\n", "h", "3", " ", "{", "f", "o", "n", "t", "-", "s", "i", "z", "e", ":", " ", "3", "6", "p", "x", ";", " ", "f", "o", "n", "t", "-", "w", "e", "i", "g", "h", "t", ":", " ", "5", "0", "0", ";", " ", "l", "i", "n", "e", "-", "h", "e", "i", "g", "h", "t", ":", " ", "4", "4", "p", "t", ";", "}">>
    \o <<"\n", "h", "4", " ", "{", "f", "o", "n", "t", "-", "s", "i", "z", "e", ":", " ", "3", "2", "p", "x", ";", " ", "f", "o", "n", "t", "-", "w", "e", "i", "g", "h", "t", ":", " ", "4", "0", "0", ";", " ", "l", "i", "n", "e", "-", "h", "e", "i", "g", "h", "t", ":", " ", "4", "0", "p", "t", ";", "}">>
    \o <<"\n", "h", "5", " ", "{", "f", "o", "n", "t", "-", "s", "i", "z", "e", ":", " ", "2", "8", "p", "x", ";", " ", "f", "o", "n", "t", "-", "w", "e", "i", "g", "h", "t", ":", " ", "4", "0", "0", ";", " ", "l", "i", "n", "e", "-", "h", "e", "i", "g", "h", "t", ":", " ", "3", "6", "p", "t", ";", "}">>
    \o <<"\n", "h", "6", " ", "{", "f", "o", "n", "t", "-", "s", "i", "z", "e", ":", " ", "2", "4", "p", "x", ";", " ", "f", "o", "n", "t", "-", "w", "e", "i", "g", "h", "t", ":", " ", "4", "0", "0", ";", " ", "l", "i", "n", "e", "-", "h", "e", "i", "g", "h", "t", ":", " ", "3", "2", "p", "t", ";", "}">>
    \o <<"\n", "p", " ", "{", "f", "o", "n", "t", "-", "s", "i", "z", "e", ":", " ", "1", "6", "p", "x", ";", " ", "f", "o", "n", "t", "-", "w", "e", "i", "g", "h", "t", ":", " ", "4", "0", "0", ";", " ", "l", "i", "n", "e", "-", "h", "e", "i", "g", "h", "t", ":", " ", "2", "4", "p", "t", ";", "}">>
    \o <<"\n", "l", "a", "b", "e", "l", " ", "{", "f", "o", "n", "t", "-", "s", "i", "z", "e", ":", " ", "1", "2", "p", "x", ";", " ", "f", "o", "n", "t", "-", "w", "e", "i", "g", "h", "t", ":", " ", "5", "0", "0", ";", " ", "l", "i", "n", "e", "-", "h", "e", "i", "g", "h", "t", ":", " ", "1", "6", "p", "t", ";", "}">>

createTemplate(html, cssText) ==
    <<"\n", " ", " ", " ", " ", " ", " ", " ", " ">> \o html
    \o <<"\n", " ", " ", " ", " ", " ", " ", " ", " ", "<", "s", "t", "y", "l", "e", ">", "\n", " ", " ", " ", " ", " ", " ", " ", " ">> \o defaultComp
    \o <<"\n", " ", " ", " ", " ", " ", " ", " ", " ">> \o cssText
    \o <<"\n", " ", " ", " ", " ", " ", " ", " ", " ", "<", "/", "s", "t", "y", "l", "e", ">", "\n", " ", " ", " ", " ", " ", " ", " ", " ">>

\* flatten(items, out): the items that are no arrays, depth first
RECURSIVE flatten(_)
flatten_nestedLost(items) ==
    SelectSeq(items, LAMBDA item : item.t # "array")

flatten(items) ==
    IF Len(items) = 0 THEN <<>>
    ELSE (IF items[1].t = "array" THEN flatten(items[1].a) ELSE <<items[1]>>)
         \o flatten(Tail(items))

\* rawArray = Array.isArray(css) ? this.flatten(css) : [css]
rawArrayOf(cssValue) ==
    IF cssValue.t = "array" THEN flatten(cssValue.a) ELSE <<cssValue>>

\* The callback of rawArray.map
compileEntry(entry) ==
    IF entry.t = "string" THEN Return(entry.s) ELSE create(entry.o)

\* rawArray.map(...).join("\n"): the first entry whose compilation throws
\* ends the call
joinEntries(texts) ==
    IF \E i \in 1..Len(texts) : ~texts[i].ok THEN firstThrow(texts)
    ELSE Return(join([i \in 1..Len(texts) |-> texts[i].text], <<"\n">>))

compileEntries(rawArray) ==
    joinEntries([i \in 1..Len(rawArray) |-> compileEntry(rawArray[i])])

compileCSSObjects(cssValue) == compileEntries(rawArrayOf(cssValue))

\* this.shadowRoot.innerHTML = this.createTemplate(html, <compiled>): the
\* assignment takes place only if the evaluation of its right side returns
innerHTML_cleared(old, html, compiled) ==
    IF compiled.ok THEN createTemplate(html, compiled.text) ELSE <<>>

innerHTML(old, html, compiled) ==
    IF compiled.ok THEN createTemplate(html, compiled.text) ELSE old

\* if (typeof this.<hook> === "function") this.<hook>()
hookStep(hook) == IF hook \in hooks THEN <<hook>> ELSE <<>>

\* The steps of render and update after the HTML and the CSS are obtained
\* (obtained names the hooks called for them).
stepsOf(obtained, compiled) ==
    hookStep("beforeRender") \o obtained \o <<"compileCSSObjects">>
        \o (IF compiled.ok
            THEN <<"createTemplate", "innerHTML">> \o hookStep("afterRender")
            ELSE <<>>)

\* The body of render and update for the HTML and the CSS they obtained.
inject(method, given, html, cssValue, obtained, compiled) ==
    /\ called' = method
    /\ styles' = cssValue
    /\ shadowRoot' = innerHTML(shadowRoot, html, compiled)
    /\ steps' = stepsOf(obtained, compiled)
    /\ thrown' = (IF compiled.ok THEN "" ELSE compiled.error)
    /\ compiledCSS' = compiled
    /\ supplied' = given
    /\ UNCHANGED hooks

\* What createHTML may return.
Markups == { <<"<", "p", ">", "a", "<", "/", "p", ">">> }

GoodRule == Obj(<< <<<<"c", "l", "a", "s", "s">>, Str(<<"b", "o", "x">>)>>, <<<<"p", "a", "d", "d", "i", "n", "g">>, Num(100)>> >>)

RawCSS == Str(<<"p", " ", "{", "c", "o", "l", "o", "r", ":", " ", "r", "e", "d", ";", "}">>)

BadMedia ==
    Obj(<< <<<<"c", "l", "a", "s", "s">>, Str(<<"b", "o", "x">>)>>,
           <<<<"m", "e", "d", "i", "a">>, Obj(<< <<<<"p", "a", "d", "d", "i", "n", "g">>, Num(160)>> >>)>> >>)

BadKeyframes ==
    Obj(<< <<<<"k", "e", "y", "f", "r", "a", "m", "e", "s">>, Obj(<< <<<<"5", "0">>, Obj(<< <<<<"o", "p", "a", "c", "i", "t", "y">>, Num(5)>> >>)>>,
                                  <<<<"n", "a", "m", "e">>, Str(<<"p", "u", "l", "s", "e">>)>> >>)>> >>)

StyleEntries == { GoodRule, BadMedia }

\* What createCSS may return, and what update may be given as newCSS.
StyleArrays ==
    { Arr(a) : a \in SeqsUpTo(StyleEntries, MaxEntries) }
        \cup { Arr(<<GoodRule, Arr(<<RawCSS, Arr(<<BadKeyframes>>)>>)>>),
               Arr(<<Arr(<<RawCSS>>), GoodRule>>),
               Arr(<<GoodRule, Arr(<<Arr(<<RawCSS, GoodRule>>), RawCSS>>)>>) }

Styles == StyleArrays \cup { GoodRule, RawCSS, BadMedia, BadKeyframes }

render ==
    /\ \E html \in Markups, cssValue \in Styles :
            \E compiled \in { compileCSSObjects(cssValue) } :
                inject("render", <<>>, html, cssValue, <<"createHTML", "createCSS">>,
                       compiled)
    /\ UNCHANGED <<subVars, propVars, fetchVars, designVars>>

\* What update may be given as newHTML and as newCSS.
NewHTMLs == { Undefined, Str(<<>>), Str(<<"<", "i", ">", "n", "<", "/", "i", ">">>) }

NewCSSs == { Undefined, Arr(<< >>), Arr(<<GoodRule>>), Arr(<<GoodRule, BadMedia>>) }

\* a || this.<hook>(): the value, and the hook called to obtain it
orHook(a, returned, hook) ==
    IF Truthy(a) THEN { <<a, <<>> >> }
    ELSE { <<r, <<hook>> >> : r \in returned }

update ==
    /\ \E newCSS \in NewCSSs :
         \E cssValue \in orHook(newCSS, Styles, "createCSS") :
          \E compiled \in { compileCSSObjects(cssValue[1]) } :
           \E newHTML \in NewHTMLs :
            \E html \in orHook(newHTML, { Str(m) : m \in Markups }, "createHTML") :
                inject("update", <<newHTML, newCSS>>, html[1].s, cssValue[1], html[2] \o cssValue[2],
                       compiled)
    /\ UNCHANGED <<subVars, propVars, fetchVars, designVars>>

\* A component after its constructor: the shadow root is attached and empty.
CompInit ==
    /\ pc = "none"
    /\ op = ""
    /\ key = <<>>
    /\ value = Undefined
    /\ css = <<>>
    /\ cssAfter = <<>>
    /\ parsed = NoResult
    /\ kebab = <<>>
    /\ created = Return(<<>>)
    /\ shadowRoot = <<>>
    /\ hooks \in SUBSET {"beforeRender", "afterRender"}
    /\ called = ""
    /\ styles = Undefined
    /\ steps = <<>>
    /\ thrown = ""
    /\ compiledCSS = Return(<<>>)
    /\ supplied = <<>>
    /\ NoLife

CompNext == render \/ update

CompSpec == CompInit /\ [][CompNext]_vars

-----------------------------------------------------------------------------
(* Comp: connectedCallback, disconnectedCallback, subscribe and the        *)
(* unsubscribe functions it returns.                                       *)
(*                                                                         *)
(* A Map and a Record are sets of <<key, value>> with one value per key.   *)
(* A listener function (bound) is named by the number of the subscribe     *)
(* call that created it; the options of addEventListener are modelled by   *)
(* their capture flag, which is what the listener list is matched on.      *)

mapHas(m, k) == \E e \in m : e[1] = k
mapGet(m, k) == (CHOOSE e \in m : e[1] = k)[2]
mapSet(m, k, v) == { e \in m : e[1] # k } \cup { <<k, v>> }
mapDelete(m, k) == { e \in m : e[1] # k }

\* EventTarget.addEventListener and removeEventListener: an entry of the
\* listener list is identified by type, callback and capture
addEventListener(list, type, callback, capture) ==
    list \cup { [type |-> type, callback |-> callback, capture |-> capture] }

removeEventListener(list, type, callback, capture) ==
    list \ { [type |-> type, callback |-> callback, capture |-> capture] }

\* A method that does not render: the outcome of the last render stays.
noRender(method) ==
    /\ called' = method
    /\ steps' = <<>>
    /\ thrown' = ""
    /\ UNCHANGED <<shadowRoot, hooks, styles, compiledCSS, supplied>>

SubNames == { "ping", "pong" }

\* subscribe(name, listener, options, autoCleanup): bound, the listener
\* function created by this call, is named by the number of the call
subscribe ==
    /\ Len(subs) < MaxSubs
    /\ \E name \in SubNames, capture \in BOOLEAN, autoCleanup \in BOOLEAN :
        \E bound \in { Len(subs) + 1 } :
            /\ listeners' = mapSet(listeners, name, bound)
            /\ attached' =
                  addEventListener(
                      IF mapHas(listeners, name)
                      THEN removeEventListener(attached, name,
                                               mapGet(listeners, name), capture)
                      ELSE attached,
                      name, bound, capture)
            /\ unsubscribers_' = (IF autoCleanup THEN Append(unsubscribers_, bound)
                                  ELSE unsubscribers_)
            /\ subs' = Append(subs, [name |-> name, capture |-> capture,
                                     autoCleanup |-> autoCleanup])
    /\ noRender("subscribe")
    /\ UNCHANGED <<mounted, connectRenders, propVars, fetchVars, designVars>>

\* The unsubscribe function that subscribe call number bound returned:
\* this.removeEventListener(name, bound, options); this.listeners.delete(name)
unsubscribed(state, bound) ==
    [attached |-> removeEventListener(state.attached, subs[bound].name, bound,
                                      subs[bound].capture),
     listeners |-> mapDelete(state.listeners, subs[bound].name)]

unsubscribe ==
    /\ \E bound \in 1..Len(subs) :
        \E after \in { unsubscribed([attached |-> attached, listeners |-> listeners],
                                    bound) } :
            /\ attached' = after.attached
            /\ listeners' = after.listeners
    /\ noRender("unsubscribe")
    /\ UNCHANGED <<mounted, unsubscribers_, subs, connectRenders>>
    /\ UNCHANGED <<propVars, fetchVars, designVars>>

\* this.unsubscribers_.forEach(unsub => unsub())
RECURSIVE forEachUnsub(_, _)
forEachUnsub_lastOnly(state, unsubs) ==
    IF Len(unsubs) = 0 THEN state
    ELSE unsubscribed(state, unsubs[Len(unsubs)])

forEachUnsub(state, unsubs) ==
    IF Len(unsubs) = 0 THEN state
    ELSE forEachUnsub(unsubscribed(state, unsubs[1]), Tail(unsubs))

disconnectedCallback ==
    /\ mounted' = FALSE
    /\ \E after \in { forEachUnsub([attached |-> attached, listeners |-> listeners],
                                   unsubscribers_) } :
            /\ attached' = after.attached
            /\ listeners' = after.listeners
    /\ unsubscribers_' = <<>>
    /\ connectRenders' = 0
    /\ noRender("disconnectedCallback")
    /\ UNCHANGED <<subs, propVars, fetchVars, designVars>>

\* A render or an update() without arguments, called by method; createCSS
\* returns a rule that compiles or one that does not.
rerender(method, given) ==
    \E html \in Markups, cssValue \in { GoodRule, BadMedia } :
        \E compiled \in { compileCSSObjects(cssValue) } :
            inject(method, given, html, cssValue, <<"createHTML", "createCSS">>,
                   compiled)

\* val && typeof val === "object" && "default" in val
isPropPattern(val) == Truthy(val) /\ val.t = "object" /\ Has(val.o, <<"d", "e", "f", "a", "u", "l", "t">>)

\* The PropState that createProps stores for a raw property (a function
\* given as default, loading or error is taken as the value it returns)
propState(val) ==
    [default |-> Get(val.o, <<"d", "e", "f", "a", "u", "l", "t">>), loading |-> Get(val.o, <<"l", "o", "a", "d", "i", "n", "g">>),
     error |-> Get(val.o, <<"e", "r", "r", "o", "r">>), current |-> Get(val.o, <<"d", "e", "f", "a", "u", "l", "t">>)]

\* createProps: this.properties
propertiesCreated(fs, props) ==
    { e \in props : ~\E f \in fs : f[1] = e[1] /\ isPropPattern(f[2]) }
        \cup { <<f[1], propState(f[2])>> : f \in { g \in fs : isPropPattern(g[2]) } }

\* propAccessors: the accessors are defined once, for the keys of
\* this.properties at that time
accessorsWired(acc, props) ==
    IF acc.wired THEN acc
    ELSE [wired |-> TRUE, keys |-> { e[1] : e \in props }]

\* this.mounted = true
mountedAfterConnect_forgotten(m) == m

mountedAfterConnect(m) == TRUE

connectedCallback ==
    /\ \/ /\ mounted
          /\ noRender("connectedCallback")
          /\ UNCHANGED <<mounted, connectRenders, propVars>>
       \/ /\ ~mounted
          /\ mounted' = mountedAfterConnect(mounted)
          /\ properties' = propertiesCreated(fields, properties)
          /\ fields' = { f \in fields : ~isPropPattern(f[2]) }
          /\ accessors' = accessorsWired(accessors, properties')
          /\ UNCHANGED <<seen, assigned>>
          /\ rerender("connectedCallback", <<>>)
          /\ connectRenders' = connectRenders + 1
    /\ UNCHANGED <<listeners, attached, unsubscribers_, subs, fetchVars, designVars>>

-----------------------------------------------------------------------------
(* Comp: the accessors that defineProp defines for a reactive property.    *)

NaN == [t |-> "number", nan |-> TRUE]

\* a === b for two primitive values
strictEquals(a, b) == a = b /\ a # NaN

\* prop.current = value; this.update(): the hooks of the update read the
\* properties as they are after the assignment
readDuringUpdate_beforeAssignment(before, after) == before

readDuringUpdate(before, after) == after

\* this.<key> = v, this.<key>_loading = v or this.<key>_error = v: the setter
\* of the accessor, named by the field of the PropState it writes (slot)
assign ==
    /\ \E k \in accessors.keys, slot \in { "current", "loading", "error" },
          v \in { Num(0), Num(10), NaN } :
            /\ assigned' = <<k, slot, v>>
            /\ IF ~mapHas(properties, k) \/ strictEquals(mapGet(properties, k)[slot], v)
               THEN /\ noRender("set")
                    /\ UNCHANGED <<properties, seen>>
               ELSE /\ properties' = mapSet(properties, k,
                                            [mapGet(properties, k) EXCEPT ![slot] = v])
                    /\ seen' = readDuringUpdate(properties, properties')
                    /\ rerender("set", <<Undefined, Undefined>>)
    /\ UNCHANGED <<fields, accessors, subVars, fetchVars, designVars>>
-----------------------------------------------------------------------------
(* Comp: fetchOnce and the reactions to the promise its loader returns.    *)
(*                                                                         *)
(* loader().then(onResolved).catch(onRejected): onResolved runs when the   *)
(* loader's promise is fulfilled; onRejected runs when that promise is     *)
(* rejected and also when onResolved throws, in a later job, with the      *)
(* rejection reason or the thrown error.  loads holds, for a key, where    *)
(* this chain stands (at), how the loader's promise was settled (loader,   *)
(* result) and what onRejected is called with (reason).                    *)

\* let entry = this.asyncStore[key]; if (entry) return entry: an entry of the
\* store is an object, and so is a property that the store inherits from
\* Object.prototype
isCached_settledOnly(store, k) ==
    mapHas(store, k) /\ ~mapGet(store, k).loading

isCached(store, k) ==
    mapHas(store, k) \/ k \in { "toString", "constructor", "valueOf" }

\* fetched names what the call returned: the entry of the store, or what
\* the store inherits for the key.
fetchOnce ==
    /\ \E k \in FetchKeys :
        IF isCached(asyncStore, k)
        THEN /\ fetched' = <<k, <<(IF mapHas(asyncStore, k) THEN "asyncStore"
                                     ELSE "Object.prototype"), k>> >>
             /\ UNCHANGED <<asyncStore, loads, loaderCalls>>
        ELSE /\ loaderCalls[k] < MaxLoads
             /\ asyncStore' = mapSet(asyncStore, k,
                                     [value |-> Undefined, loading |-> TRUE,
                                      error |-> Undefined])
             /\ loaderCalls' = [loaderCalls EXCEPT ![k] = @ + 1]
             /\ loads' = mapSet(loads, k, [at |-> "pending", loader |-> "pending",
                                             result |-> Undefined,
                                             reason |-> Undefined])
             /\ fetched' = <<k, <<"asyncStore", k>> >>
    /\ noRender("fetchOnce")
    /\ UNCHANGED <<subVars, propVars, designVars>>

\* An Error object, and a string given by its text.
ErrorObject(message) == [t |-> "error", message |-> message]
Text(s) == [t |-> "text", s |-> s]

\* err?.message || err
errorOf(err) ==
    IF err.t = "error" /\ err.message # "" THEN Text(err.message) ELSE err

\* onResolved: entry.value = result; entry.error = undefined;
\* entry.loading = false; this.update().  The promise returned by then is
\* rejected with the error that update raised, if any.
onResolved ==
    /\ \E k \in { e[1] : e \in { l \in loads : l[2].at = "pending" } },
          result \in { Num(10), Undefined } :
        /\ asyncStore' = mapSet(asyncStore, k,
                                [value |-> result, loading |-> FALSE,
                                 error |-> Undefined])
        /\ rerender("onResolved", <<Undefined, Undefined>>)
        /\ loads' = mapSet(loads, k,
                           [at |-> (IF thrown' = "" THEN "done" ELSE "catch"),
                            loader |-> "resolved",
                            result |-> result,
                            reason |-> (IF thrown' = "" THEN Undefined
                                        ELSE ErrorObject(thrown'))])
    /\ UNCHANGED <<loaderCalls, fetched, subVars, propVars, designVars>>

\* The loader's promise is rejected: onResolved is skipped and the promise
\* returned by then is rejected with the same reason.
loaderRejected ==
    /\ \E k \in { e[1] : e \in { l \in loads : l[2].at = "pending" } },
          reason \in { ErrorObject("offline"), ErrorObject(""), Text("denied"),
                       Undefined } :
        loads' = mapSet(loads, k, [at |-> "catch", loader |-> "rejected",
                                     result |-> Undefined, reason |-> reason])
    /\ noRender("loader")
    /\ UNCHANGED <<asyncStore, loaderCalls, fetched, subVars, propVars, designVars>>

\* onRejected: entry.error = err?.message || err; entry.loading = false;
\* this.update()
onRejected ==
    /\ \E k \in { e[1] : e \in { l \in loads : l[2].at = "catch" } } :
        /\ asyncStore' = mapSet(asyncStore, k,
                                [mapGet(asyncStore, k) EXCEPT
                                    !.error = errorOf(mapGet(loads, k).reason),
                                    !.loading = FALSE])
        /\ loads' = mapSet(loads, k, [mapGet(loads, k) EXCEPT !.at = "done"])
        /\ rerender("onRejected", <<Undefined, Undefined>>)
    /\ UNCHANGED <<loaderCalls, fetched, subVars, propVars, designVars>>
-----------------------------------------------------------------------------
(* The life cycle of one component.                                        *)

\* A component after its constructor whose subclass implements both hooks.
Constructed ==
    /\ pc = "none"
    /\ op = ""
    /\ key = <<>>
    /\ value = Undefined
    /\ css = <<>>
    /\ cssAfter = <<>>
    /\ parsed = NoResult
    /\ kebab = <<>>
    /\ created = Return(<<>>)
    /\ shadowRoot = <<>>
    /\ hooks = {"beforeRender", "afterRender"}
    /\ called = ""
    /\ styles = Undefined
    /\ steps = <<>>
    /\ thrown = ""
    /\ compiledCSS = Return(<<>>)
    /\ supplied = <<>>

\* A component without reactive properties after its first
\* connectedCallback, whose render injected a rule that compiles.
Connected ==
    /\ pc = "none"
    /\ op = ""
    /\ key = <<>>
    /\ value = Undefined
    /\ css = <<>>
    /\ cssAfter = <<>>
    /\ parsed = NoResult
    /\ kebab = <<>>
    /\ created = Return(<<>>)
    /\ hooks = {"beforeRender", "afterRender"}
    /\ called = "connectedCallback"
    /\ styles = GoodRule
    /\ compiledCSS = compileCSSObjects(GoodRule)
    /\ \E html \in Markups : shadowRoot = createTemplate(html, compiledCSS.text)
    /\ steps = <<"beforeRender", "createHTML", "createCSS", "compileCSSObjects",
                 "createTemplate", "innerHTML", "afterRender">>
    /\ thrown = ""
    /\ supplied = <<>>
    /\ mounted = TRUE
    /\ listeners = {}
    /\ attached = {}
    /\ unsubscribers_ = <<>>
    /\ subs = <<>>
    /\ connectRenders = 1
    /\ fields = {}
    /\ properties = {}
    /\ accessors = [wired |-> TRUE, keys |-> {}]
    /\ seen = {}
    /\ assigned = <<>>
    /\ NoFetches

\* Subscribing, unsubscribing and disconnecting, before and after the
\* component was connected.
SubInit == (Constructed /\ NoLife) \/ Connected

SubNext == disconnectedCallback \/ subscribe \/ unsubscribe

SubSpec == SubInit /\ [][SubNext]_vars

\* The own properties that the subclass sets in its constructor: one follows
\* the { default } pattern of a reactive property, one does not.
RawFields ==
    { <<"count", Obj(<< <<<<"d", "e", "f", "a", "u", "l", "t">>, Num(0)>>, <<<<"l", "o", "a", "d", "i", "n", "g">>, Num(10)>> >>)>>,
      <<"plain", Num(10)>> }

PropInit ==
    /\ Constructed /\ NoSubs /\ NoFetches
    /\ fields = RawFields
    /\ properties = {}
    /\ accessors = [wired |-> FALSE, keys |-> {}]
    /\ seen = {}
    /\ assigned = <<>>

PropNext == connectedCallback \/ disconnectedCallback \/ assign

PropSpec == PropInit /\ [][PropNext]_vars

FetchInit == Constructed /\ NoLife

FetchNext == fetchOnce \/ onResolved \/ loaderRejected \/ onRejected

FetchSpec == FetchInit /\ [][FetchNext]_vars

-----------------------------------------------------------------------------
(* Properties.                                                             *)

IsPrefix(p, s) == Len(p) <= Len(s) /\ SubSeq(s, 1, Len(p)) = p

Contains(s, sub) ==
    \E i \in 0..(Len(s) - Len(sub)) : SubSeq(s, i + 1, i + Len(sub)) = sub

Parsed == pc = "done" /\ op = "parseProperties"

Kebabed == pc = "done" /\ op = "camelToKebab"

Created == pc = "done" /\ op = "create"

\* The key ends with none of the suffixes of the operator table.
NoOperatorSuffix(k) == \A i \in 1..Len(OPERATORS) : ~endsWith(k, OPERATORS[i][1])

\* The unit operators and their units, as the operator reference lists them.
UnitTable ==
    << <<<<"P", "e", "r", "c", "e", "n", "t">>, <<"%">>>>, <<<<"E", "m">>, <<"e", "m">>>>, <<<<"R", "e", "m">>, <<"r", "e", "m">>>>,
       <<<<"V", "w">>, <<"v", "w">>>>, <<<<"V", "h">>, <<"v", "h">>>>, <<<<"V", "m", "i", "n">>, <<"v", "m", "i", "n">>>>,
       <<<<"V", "m", "a", "x">>, <<"v", "m", "a", "x">>>>, <<<<"C", "h">>, <<"c", "h">>>>, <<<<"E", "x">>, <<"e", "x">>>>,
       <<<<"P", "t">>, <<"p", "t">>>>, <<<<"P", "c">>, <<"p", "c">>>>, <<<<"I", "n">>, <<"i", "n">>>>,
       <<<<"C", "m">>, <<"c", "m">>>>, <<<<"M", "m">>, <<"m", "m">>>>, <<<<"F", "r">>, <<"f", "r">>>>,
       <<<<"S">>, <<"s">>>>, <<<<"M", "s">>, <<"m", "s">>>>, <<<<"D", "e", "g">>, <<"d", "e", "g">>>>,
       <<<<"R", "a", "d">>, <<"r", "a", "d">>>>, <<<<"G", "r", "a", "d">>, <<"g", "r", "a", "d">>>>, <<<<"T", "u", "r", "n">>, <<"t", "u", "r", "n">>>>,
       <<<<"D", "p", "i">>, <<"d", "p", "i">>>>, <<<<"D", "p", "c", "m">>, <<"d", "p", "c", "m">>>>, <<<<"D", "p", "p", "x">>, <<"d", "p", "p", "x">>>>,
       <<<<"Q">>, <<"q">>>>, <<<<"H", "z">>, <<"H", "z">>>>, <<<<"K", "H", "z">>, <<"k", "H", "z">>>> >>

\* C1: for every unit operator suffix S mapped to unit U, every camelCase base
\* key b and every non-zero number v, parseProperties(b + S, v) returns the
\* property name camelToKebab(b) and the value v immediately followed by U.
C1_UnitSuffixAppended ==
    (Parsed /\ value.t = "number" /\ value.n # 0) =>
        \A i \in 1..Len(UnitTable) : \A b \in SampleKeys :
            key = b \o UnitTable[i][1] =>
                /\ parsed.propKey = camelToKebab(b)
                /\ parsed.propValue = NumberToString(value.n) \o UnitTable[i][2]

\* C2: for every key that ends with no operator suffix and whose kebab-case
\* name is not in the unitless set, and every non-zero number v,
\* parseProperties(key, v) returns the value v followed by px.
C2_DefaultUnitPx ==
    (/\ Parsed
     /\ value.t = "number" /\ value.n # 0
     /\ NoOperatorSuffix(key)
     /\ camelToKebab(key) \notin UNITLESS_PROPERTIES)
        => parsed.propValue = NumberToString(value.n) \o <<"p", "x">>

C2_Witness ==
    /\ Parsed
    /\ key = <<"m", "a", "r", "g", "i", "n", "T", "o", "p">> /\ value = Num(24)
    /\ parsed.propKey = <<"m", "a", "r", "g", "i", "n", "-", "t", "o", "p">> /\ parsed.propValue = <<"2", ".", "4", "p", "x">>

\* C3: for every key, with or without an operator suffix (unit suffix or
\* Var/Url/Calc) and whether or not the property is unitless,
\* parseProperties(key, 0) returns exactly the value "0".
C3_ZeroIsBare ==
    (Parsed /\ value = Num(0)) => parsed.propValue = <<"0">>

C3_Witness ==
    /\ Parsed
    /\ key = <<"w", "i", "d", "t", "h", "P", "e", "r", "c", "e", "n", "t">> /\ value = Num(0)
    /\ parsed.propKey = <<"w", "i", "d", "t", "h">> /\ parsed.propValue = <<"0">>

\* The text the claim C4 gives an array value under key k: the texts of the
\* elements under k joined by one space, to any nesting depth.
RECURSIVE ElementWise(_, _)
ElementWise(k, v) ==
    IF v.t = "array"
    THEN join([i \in 1..Len(v.a) |-> ElementWise(k, v.a[i])], <<" ">>)
    ELSE parseProperties(k, v).propValue

\* C4: for every key k and every array value, the value returned by
\* parseProperties(k, [a, b, ...]) equals the values returned by
\* parseProperties(k, a), parseProperties(k, b), ... joined by one space,
\* each element being treated as a scalar under the original key, to any
\* nesting depth, and a 0 element is emitted as 0.
C4_ArrayElementWise ==
    (Parsed /\ value.t = "array") =>
        /\ parsed.propValue =
              join([i \in 1..Len(value.a) |->
                        parseProperties(key, value.a[i]).propValue], <<" ">>)
        /\ parsed.propValue = ElementWise(key, value)
        /\ (\A i \in 1..Len(value.a) : value.a[i] = Num(0)) =>
              parsed.propValue = join([i \in 1..Len(value.a) |-> <<"0">>], <<" ">>)

C4_Witness ==
    /\ Parsed
    /\ key = <<"m", "a", "r", "g", "i", "n", "P", "e", "r", "c", "e", "n", "t">>
    /\ value = Arr(<<Arr(<<Num(15), Num(0)>>), Num(15)>>)
    /\ parsed.propValue = <<"1", ".", "5", "%", " ", "0", " ", "1", ".", "5", "%">>

\* C5: for a string value s, a key ending with Var gives var(--s), with Url
\* url(s), with Calc calc(s); for a key with no operator suffix the string is
\* emitted unchanged.
C5_StringValues ==
    (Parsed /\ value.t = "string") =>
        /\ endsWith(key, <<"V", "a", "r">>) => parsed.propValue = <<"v", "a", "r", "(", "-", "-">> \o value.s \o <<")">>
        /\ endsWith(key, <<"U", "r", "l">>) => parsed.propValue = <<"u", "r", "l", "(">> \o value.s \o <<")">>
        /\ endsWith(key, <<"C", "a", "l", "c">>) => parsed.propValue = <<"c", "a", "l", "c", "(">> \o value.s \o <<")">>
        /\ NoOperatorSuffix(key) => parsed.propValue = value.s

C5_Witness ==
    /\ Parsed
    /\ key = <<"b", "a", "c", "k", "g", "r", "o", "u", "n", "d", "V", "a", "r">> /\ value = Str(<<"b", "l", "u", "e", "1", "0", "0">>)
    /\ parsed.propKey = <<"b", "a", "c", "k", "g", "r", "o", "u", "n", "d">> /\ parsed.propValue = <<"v", "a", "r", "(", "-", "-", "b", "l", "u", "e", "1", "0", "0", ")">>

\* C6: for every non-zero number v and every key without operator suffix
\* whose kebab-case name is in the unitless set, the emitted value is v with
\* no unit; the membership test uses the kebab-case name.
C6_UnitlessProperties ==
    (/\ Parsed
     /\ value.t = "number" /\ value.n # 0
     /\ NoOperatorSuffix(key)
     /\ camelToKebab(key) \in
            { <<"o", "p", "a", "c", "i", "t", "y">>, <<"z", "-", "i", "n", "d", "e", "x">>, <<"l", "i", "n", "e", "-", "h", "e", "i", "g", "h", "t">>, <<"f", "o", "n", "t", "-", "w", "e", "i", "g", "h", "t">>,
              <<"f", "l", "e", "x">>, <<"o", "r", "d", "e", "r">>, <<"f", "l", "e", "x", "-", "g", "r", "o", "w">>, <<"f", "l", "e", "x", "-", "s", "h", "r", "i", "n", "k">>, <<"g", "r", "i", "d", "-", "r", "o", "w">>,
              <<"g", "r", "i", "d", "-", "c", "o", "l", "u", "m", "n">>, <<"c", "o", "l", "u", "m", "n", "-", "c", "o", "u", "n", "t">>, <<"w", "i", "d", "o", "w", "s">>, <<"o", "r", "p", "h", "a", "n", "s">>, <<"t", "a", "b", "-", "s", "i", "z", "e">> })
        => parsed.propValue = NumberToString(value.n)

C6_Witness ==
    /\ Parsed
    /\ key = <<"z", "I", "n", "d", "e", "x">> /\ value = Num(-10)
    /\ parsed.propKey = <<"z", "-", "i", "n", "d", "e", "x">> /\ parsed.propValue = <<"-", "1">>

\* A name that is lowercase and hyphenated already.
IsKebabCase(s) == \A i \in 1..Len(s) : IsLower(s[i]) \/ IsDigit(s[i]) \/ s[i] = "-"

\* C7: camelToKebab is idempotent, camelToKebab(camelToKebab(x)) =
\* camelToKebab(x), and a name that is already lowercase and hyphenated is
\* returned unchanged.
C7_KebabIdempotent ==
    Kebabed =>
        /\ camelToKebab(kebab) = kebab
        /\ IsKebabCase(key) => kebab = key

C7_Witness ==
    /\ Kebabed
    /\ key = <<"m", "a", "r", "g", "i", "n", "T", "o", "p">> /\ kebab = <<"m", "a", "r", "g", "i", "n", "-", "t", "o", "p">>
    /\ camelToKebab(kebab) = <<"m", "a", "r", "g", "i", "n", "-", "t", "o", "p">>

\* The base rule of a text returned by create: the text up to its first "}".
FirstRule(text) ==
    IF \E i \in 1..Len(text) : text[i] = "}"
    THEN SubSeq(text, 1, CHOOSE i \in 1..Len(text) :
                            text[i] = "}" /\ \A j \in 1..(i - 1) : text[j] # "}")
    ELSE text

Localized == { <<"c", "o", "l", "o", "u", "r">>, <<"c", "e", "n", "t", "r", "e">>, <<"g", "r", "e", "y">>, <<"b", "e", "h", "a", "v", "i", "o", "u", "r">> }

\* The one-way dialect substitution the claim C8 states.
Standard(x) ==
    CASE x = <<"c", "o", "l", "o", "u", "r">> -> <<"c", "o", "l", "o", "r">>
      [] x = <<"c", "e", "n", "t", "r", "e">> -> <<"c", "e", "n", "t", "e", "r">>
      [] x = <<"g", "r", "e", "y">> -> <<"g", "r", "a", "y">>
      [] x = <<"b", "e", "h", "a", "v", "i", "o", "u", "r">> -> <<"b", "e", "h", "a", "v", "i", "o", "r">>
      [] OTHER -> x

\* The property names and values that parseProperties resolves for the
\* declarations of a config.
Resolved(o) ==
    { parseProperties(o[i][1], o[i][2]) :
        i \in { j \in 1..Len(o) : o[j][1] \notin ReservedKeys } }

\* C8: in a rule compiled by create, a property name or value equal to
\* colour, centre, grey or behaviour is emitted as color, center, gray or
\* behavior; a standard spelling is emitted unchanged and never turned into a
\* localized one; substituting twice gives the same as substituting once.
C8_DialectOneWay ==
    (Created /\ created.ok) =>
        /\ \A p \in Resolved(css) :
                /\ Contains(FirstRule(created.text),
                            <<"\n", " ", " ">> \o Standard(p.propKey) \o <<":", " ">>
                                \o Standard(p.propValue) \o <<";">>)
                /\ \A x \in {p.propKey, p.propValue} :
                        americanise(Str(americanise(Str(x)))) = americanise(Str(x))
        /\ \A x \in Localized :
                /\ ~Contains(FirstRule(created.text), <<"\n", " ", " ">> \o x \o <<":", " ">>)
                /\ ~Contains(FirstRule(created.text), <<":", " ">> \o x \o <<";">>)

C8_Witness ==
    /\ Created /\ created.ok
    /\ css = << <<<<"c", "l", "a", "s", "s">>, Str(<<"b", "o", "x">>)>>, <<<<"c", "o", "l", "o", "u", "r">>, Str(<<"g", "r", "e", "y">>)>>,
                <<<<"c", "o", "l", "o", "r">>, Str(<<"g", "r", "a", "y">>)>> >>
    /\ created.text = <<"\n", ".", "b", "o", "x", " ", "{", "\n", " ", " ", "c", "o", "l", "o", "r", ":", " ", "g", "r", "a", "y", ";", "\n", " ", " ", "c", "o", "l", "o", "r", ":", " ", "g", "r", "a", "y", ";", "}", "\n">>

\* The declarations of the non-reserved keys of a config, in config order.
RECURSIVE Declarations(_)
Declarations(o) ==
    IF Len(o) = 0 THEN <<>>
    ELSE (IF o[1][1] \in { <<"c", "l", "a", "s", "s">>, <<"p", "s", "e", "u", "d", "o", "C", "l", "a", "s", "s">>, <<"m", "e", "d", "i", "a">>, <<"k", "e", "y", "f", "r", "a", "m", "e", "s">> }
          THEN <<>>
          ELSE << <<"\n", " ", " ">> \o Standard(parseProperties(o[1][1], o[1][2]).propKey)
                    \o <<":", " ">> \o Standard(parseProperties(o[1][1], o[1][2]).propValue)
                    \o <<";">> >>)
         \o Declarations(Tail(o))

\* C9: for a config with class c, create emits one rule whose selector is .c
\* when pseudoClass is absent and .c:p when pseudoClass is p, followed by a
\* body with one declaration "name: value;" per non-reserved key, in config
\* iteration order.
C9_RuleOfClass ==
    (Created /\ created.ok /\ Truthy(Get(css, <<"c", "l", "a", "s", "s">>))) =>
        IsPrefix(<<"\n", ".">> \o Get(css, <<"c", "l", "a", "s", "s">>).s
                    \o (IF Has(css, <<"p", "s", "e", "u", "d", "o", "C", "l", "a", "s", "s">>)
                        THEN <<":">> \o Get(css, <<"p", "s", "e", "u", "d", "o", "C", "l", "a", "s", "s">>).s ELSE <<>>)
                    \o <<" ", "{">> \o concat(Declarations(css)) \o <<"}", "\n">>,
                 created.text)

C9_Witness ==
    /\ Created /\ created.ok
    /\ css = << <<<<"c", "l", "a", "s", "s">>, Str(<<"b", "o", "x">>)>>, <<<<"b", "a", "c", "k", "g", "r", "o", "u", "n", "d", "V", "a", "r">>, Str(<<"b", "l", "u", "e", "1", "0", "0">>)>>,
                <<<<"p", "a", "d", "d", "i", "n", "g">>, Num(100)>>, <<<<"p", "s", "e", "u", "d", "o", "C", "l", "a", "s", "s">>, Str(<<"h", "o", "v", "e", "r">>)>> >>
    /\ created.text =
          <<"\n", ".", "b", "o", "x", ":", "h", "o", "v", "e", "r", " ", "{", "\n", " ", " ", "b", "a", "c", "k", "g", "r", "o", "u", "n", "d", ":", " ", "v", "a", "r", "(", "-", "-", "b", "l", "u", "e", "1", "0", "0", ")", ";", "\n", " ", " ", "p", "a", "d", "d", "i", "n", "g", ":", " ", "1", "0", "p", "x", ";", "}", "\n">>

\* C10: for every config in which class is absent, with or without a
\* pseudoClass, the selector of the rule emitted by create is :host.
C10_HostWithoutClass ==
    (Created /\ created.ok /\ ~Has(css, <<"c", "l", "a", "s", "s">>)) =>
        IsPrefix(<<"\n", ":", "h", "o", "s", "t", " ", "{">>, created.text)

\* The number of places at which sub occurs in s.
CountOf(s, sub) ==
    Cardinality({ i \in 0..(Len(s) - Len(sub)) : SubSeq(s, i + 1, i + Len(sub)) = sub })

ReservedNames == { <<"c", "l", "a", "s", "s">>, <<"p", "s", "e", "u", "d", "o", "C", "l", "a", "s", "s">>, <<"m", "e", "d", "i", "a">>, <<"k", "e", "y", "f", "r", "a", "m", "e", "s">> }

\* The value of css.media when it is an object, the empty object otherwise.
MediaOf(o) == IF Get(o, <<"m", "e", "d", "i", "a">>).t = "object" THEN Get(o, <<"m", "e", "d", "i", "a">>).o ELSE <<>>

HasMedia(o) == Get(o, <<"m", "e", "d", "i", "a">>).t = "object"

HasKeyframes(o) == Get(o, <<"k", "e", "y", "f", "r", "a", "m", "e", "s">>).t = "object"

\* C11: in every output of create, no declaration of the base rule body or of
\* the media block body is generated from the reserved keys class,
\* pseudoClass, media or keyframes, whatever their values are: the text holds
\* no declaration named class, pseudo-class, media or keyframes.
C11_ReservedKeysSkipped ==
    (Created /\ created.ok) =>
        \A r \in ReservedNames :
            /\ ~Contains(created.text, camelToKebab(r) \o <<":", " ">>)
            /\ ~Contains(created.text, r \o <<":", " ">>)

C11_Witness ==
    /\ Created /\ created.ok
    /\ \A r \in ReservedNames : Has(css, r)
    /\ HasMedia(css) /\ HasKeyframes(css)
    /\ \A r \in { <<"m", "e", "d", "i", "a">>, <<"k", "e", "y", "f", "r", "a", "m", "e", "s">> } : Has(MediaOf(css), r)
    /\ Contains(created.text, <<"\n", " ", " ", "t", "e", "x", "t", "-", "a", "l", "i", "g", "n", ":", " ", "c", "e", "n", "t", "e", "r", ";">>)

\* A key that ends with the breakpoint marker, in any letter case.
EndsWithBp(k) ==
    /\ Len(k) >= 2
    /\ k[Len(k) - 1] \in {"B", "b"}
    /\ k[Len(k)] \in {"P", "p"}

BpKeys(m) == { m[i][1] : i \in { j \in 1..Len(m) : EndsWithBp(m[j][1]) } }

\* C12: for every media config, no key ending in the breakpoint marker
\* produces a declaration inside the media block, neither under its own name
\* nor under its name without the marker, also when the media config holds
\* more than one key ending in the marker.
C12_BreakpointKeysRemoved ==
    (Created /\ created.ok /\ HasMedia(css)) =>
        \A k \in BpKeys(MediaOf(css)) :
            /\ ~Contains(created.text, <<"\n", " ", " ">> \o camelToKebab(k) \o <<":", " ">>)
            /\ ~Contains(created.text,
                         <<"\n", " ", " ">> \o camelToKebab(SubSeq(k, 1, Len(k) - 2)) \o <<":", " ">>)
            /\ ~Contains(created.text,
                         <<"\n", " ", " ">> \o parseProperties(SubSeq(k, 1, Len(k) - 2),
                                                     Num(1)).propKey \o <<":", " ">>)

C12_Witness ==
    /\ Created /\ created.ok
    /\ BpKeys(MediaOf(css)) = { <<"m", "i", "n", "W", "i", "d", "t", "h", "B", "p">>, <<"m", "a", "x", "W", "i", "d", "t", "h", "B", "p">> }
    /\ Contains(created.text, <<"@", "m", "e", "d", "i", "a", " ", "(", "m", "i", "n", "-", "w", "i", "d", "t", "h", ":", " ", "3", "2", "0", "p", "x", ")", " ", "{">>)
    /\ Contains(created.text, <<"\n", " ", " ", "m", "a", "r", "g", "i", "n", ":", " ", "0", ";">>)

\* The rule that the claim C9 states for a config with a class.
RuleOfClass(o) ==
    <<"\n", ".">> \o Get(o, <<"c", "l", "a", "s", "s">>).s
        \o (IF Has(o, <<"p", "s", "e", "u", "d", "o", "C", "l", "a", "s", "s">>) THEN <<":">> \o Get(o, <<"p", "s", "e", "u", "d", "o", "C", "l", "a", "s", "s">>).s ELSE <<>>)
        \o <<" ", "{">> \o concat(Declarations(o)) \o <<"}", "\n">>

\* The first key of a media object that ends with the breakpoint marker.
FirstBp(m) ==
    m[CHOOSE i \in 1..Len(m) :
            /\ EndsWithBp(m[i][1])
            /\ \A j \in 1..(i - 1) : ~EndsWithBp(m[j][1])]

\* The key p of a breakpoint entry <<pBp, n>>.
Unmarked(e) == SubSeq(e[1], 1, Len(e[1]) - 2)

\* The selector inside the media block: the class of the media object, else
\* the class of the config; the pseudo-class of the media object, else the
\* one of the config.
MediaSelectorOf(o, m) ==
    <<".">> \o (IF Has(m, <<"c", "l", "a", "s", "s">>) THEN Get(m, <<"c", "l", "a", "s", "s">>).s ELSE Get(o, <<"c", "l", "a", "s", "s">>).s)
         \o (IF Has(m, <<"p", "s", "e", "u", "d", "o", "C", "l", "a", "s", "s">>) THEN <<":">> \o Get(m, <<"p", "s", "e", "u", "d", "o", "C", "l", "a", "s", "s">>).s
             ELSE IF Has(o, <<"p", "s", "e", "u", "d", "o", "C", "l", "a", "s", "s">>) THEN <<":">> \o Get(o, <<"p", "s", "e", "u", "d", "o", "C", "l", "a", "s", "s">>).s
             ELSE <<>>)

\* The media block with the condition (name: v), v being the value that
\* parseProperties gives for the breakpoint entry e without its marker.
MediaBlockOf(o, m, e, name) ==
    <<"\n", "@", "m", "e", "d", "i", "a", " ", "(">> \o name \o <<":", " ">> \o parseProperties(Unmarked(e), e[2]).propValue
        \o <<")", " ", "{", "\n", " ", " ">> \o MediaSelectorOf(o, m) \o <<" ", "{", "\n", " ", " ", " ", " ">>
        \o concat(Declarations(SelectSeq(m, LAMBDA d : ~EndsWithBp(d[1]))))
        \o <<"\n", " ", " ", "}", "\n", "}">>

\* The case of the claim C13: a config with a class and a media object that
\* holds a key ending with the breakpoint marker.
MediaCase ==
    /\ Created /\ created.ok
    /\ Truthy(Get(css, <<"c", "l", "a", "s", "s">>))
    /\ HasMedia(css) /\ BpKeys(MediaOf(css)) # {}

\* C13 as stated: the condition of the media block is named camelToKebab(p).
C13_MediaBlockKebabName ==
    MediaCase =>
        /\ IsPrefix(RuleOfClass(css)
                        \o MediaBlockOf(css, MediaOf(css), FirstBp(MediaOf(css)),
                                        camelToKebab(Unmarked(FirstBp(MediaOf(css))))),
                    created.text)
        /\ CountOf(created.text, <<"@", "m", "e", "d", "i", "a", " ">>) = 1

\* C13 (amended): for a config with class c and a media object holding a key
\* pBp with value n, create emits, after the base rule, exactly one block
\* @media (name: v) where name and v are the property name and the value that
\* parseProperties gives for (p, n); inside it the selector is .m when
\* media.class is m, else .c, with the pseudo-class of media.pseudoClass, else
\* of the parent's pseudoClass; its declarations are those of the remaining
\* media keys.
C13_MediaBlock ==
    MediaCase =>
        /\ IsPrefix(RuleOfClass(css)
                        \o MediaBlockOf(css, MediaOf(css), FirstBp(MediaOf(css)),
                                        parseProperties(Unmarked(FirstBp(MediaOf(css))),
                                                        FirstBp(MediaOf(css))[2]).propKey),
                    created.text)
        /\ CountOf(created.text, <<"@", "m", "e", "d", "i", "a", " ">>) = 1

C13_Witness ==
    /\ Created /\ created.ok
    /\ css = << <<<<"c", "l", "a", "s", "s">>, Str(<<"b", "o", "x">>)>>, <<<<"p", "a", "d", "d", "i", "n", "g">>, Num(100)>>,
                <<<<"p", "s", "e", "u", "d", "o", "C", "l", "a", "s", "s">>, Str(<<"h", "o", "v", "e", "r">>)>>,
                <<<<"m", "e", "d", "i", "a">>, Obj(<< <<<<"m", "a", "x", "W", "i", "d", "t", "h", "B", "p">>, Num(6000)>>,
                                   <<<<"p", "a", "d", "d", "i", "n", "g">>, Arr(<<Num(160), Num(320)>>)>> >>)>> >>
    /\ created.text =
          <<"\n", ".", "b", "o", "x", ":", "h", "o", "v", "e", "r", " ", "{", "\n", " ", " ", "p", "a", "d", "d", "i", "n", "g", ":", " ", "1", "0", "p", "x", ";", "}", "\n">>
            \o <<"\n", "@", "m", "e", "d", "i", "a", " ", "(", "m", "a", "x", "-", "w", "i", "d", "t", "h", ":", " ", "6", "0", "0", "p", "x", ")", " ", "{", "\n", " ", " ", ".", "b", "o", "x", ":", "h", "o", "v", "e", "r", " ", "{", "\n", " ", " ", " ", " ">>
            \o <<"\n", " ", " ", "p", "a", "d", "d", "i", "n", "g", ":", " ", "1", "6", "p", "x", " ", "3", "2", "p", "x", ";", "\n", " ", " ", "}", "\n", "}">>

\* C14: when the media object of a config contains no key ending in the
\* breakpoint marker, create raises an error and returns no text: neither the
\* base rule nor a keyframes block of that config is returned.
C14_MediaWithoutBreakpoint ==
    (Created /\ HasMedia(css) /\ BpKeys(MediaOf(css)) = {}) =>
        /\ ~created.ok
        /\ created.text = <<>>
        /\ created.error = "Media config must include a *Bp key"

C14_Witness ==
    /\ Created
    /\ css = << <<<<"c", "l", "a", "s", "s">>, Str(<<"b", "o", "x">>)>>, <<<<"p", "a", "d", "d", "i", "n", "g">>, Num(100)>>,
                <<<<"m", "e", "d", "i", "a">>, Obj(<< <<<<"p", "a", "d", "d", "i", "n", "g">>, Num(160)>> >>)>>,
                <<<<"k", "e", "y", "f", "r", "a", "m", "e", "s">>,
                  Obj(<< <<<<"n", "a", "m", "e">>, Str(<<"f", "a", "d", "e", "-", "i", "n">>)>>,
                         <<<<"f", "r", "o", "m">>, Obj(<< <<<<"o", "p", "a", "c", "i", "t", "y">>, Num(0)>> >>)>>,
                         <<<<"t", "o">>, Obj(<< <<<<"o", "p", "a", "c", "i", "t", "y">>, Num(10)>> >>)>> >>)>> >>
    /\ ~created.ok
    /\ created.error = "Media config must include a *Bp key"

\* C15: when a media block can resolve no class, i.e. neither the media
\* config nor its parent config has a class, compiling it raises an error
\* instead of emitting a media block.
C15_MediaWithoutClass ==
    (/\ Created
     /\ HasMedia(css) /\ BpKeys(MediaOf(css)) # {}
     /\ ~Has(css, <<"c", "l", "a", "s", "s">>) /\ ~Has(MediaOf(css), <<"c", "l", "a", "s", "s">>))
        => (~created.ok /\ ~Contains(created.text, <<"@", "m", "e", "d", "i", "a", " ">>))

\* The value of css.keyframes when it is an object, the empty object otherwise.
KeyframesOf(o) ==
    IF Get(o, <<"k", "e", "y", "f", "r", "a", "m", "e", "s">>).t = "object" THEN Get(o, <<"k", "e", "y", "f", "r", "a", "m", "e", "s">>).o ELSE <<>>

\* The media block of the config, if any, compiles without error.
MediaCompiles(o) == ~HasMedia(o) \/ BpKeys(MediaOf(o)) # {}

\* The name of a keyframes object is absent or empty.
Nameless(k) == ~Has(k, <<"n", "a", "m", "e">>) \/ Get(k, <<"n", "a", "m", "e">>) = Str(<<>>)

\* C16: a keyframes config without a name key, or with an empty name, makes
\* create raise an error and return no text for the config; the error is
\* "Keyframes config must include a name" (when the media block of the same
\* config has not raised its own error before).
C16_KeyframesWithoutName ==
    (Created /\ HasKeyframes(css) /\ Nameless(KeyframesOf(css))) =>
        /\ ~created.ok
        /\ created.text = <<>>
        /\ MediaCompiles(css) =>
                created.error = "Keyframes config must include a name"

C16_Witness ==
    /\ Created
    /\ Has(css, <<"c", "l", "a", "s", "s">>) /\ Len(Declarations(css)) = 1
    /\ HasMedia(css) /\ MediaCompiles(css)
    /\ KeyframesOf(css) =
          << <<<<"n", "a", "m", "e">>, Str(<<>>)>>,
             <<<<"t", "o">>, Obj(<< <<<<"o", "p", "a", "c", "i", "t", "y">>, Num(10)>> >>)>> >>
    /\ ~created.ok
    /\ created.error = "Keyframes config must include a name"

\* The step keys of a keyframes object, in config order.
StepKeys(k) ==
    [i \in 1..Len(SelectSeq(k, LAMBDA e : e[1] # <<"n", "a", "m", "e">>)) |->
        SelectSeq(k, LAMBDA e : e[1] # <<"n", "a", "m", "e">>)[i][1]]

\* from or to in any letter case.
IsFromTo(step) ==
    \/ /\ Len(step) = 4
       /\ step[1] \in {"f", "F"} /\ step[2] \in {"r", "R"}
       /\ step[3] \in {"o", "O"} /\ step[4] \in {"m", "M"}
    \/ /\ Len(step) = 2
       /\ step[1] \in {"t", "T"} /\ step[2] \in {"o", "O"}

\* ^\d+%$
IsPercentage(step) ==
    /\ Len(step) >= 2
    /\ step[Len(step)] = "%"
    /\ \A i \in 1..(Len(step) - 1) :
            step[i] \in {"0", "1", "2", "3", "4", "5", "6", "7", "8", "9"}

\* The text under which an accepted step key is emitted.
EmittedStep(step) ==
    IF IsFromTo(step) THEN (IF Len(step) = 4 THEN <<"f", "r", "o", "m">> ELSE <<"t", "o">>) ELSE step

\* C17: in a keyframes config (with a name, in a config whose media block
\* compiles), a step key is accepted when it is from or to in any letter case,
\* emitted in lowercase, or matches ^\d+%$, emitted unchanged; every other
\* step key, such as "50" without %, makes create raise "Invalid keyframe
\* step" and return no text, wherever the bad step stands among the valid
\* ones.
C17_KeyframeSteps ==
    (/\ Created
     /\ HasKeyframes(css) /\ ~Nameless(KeyframesOf(css))
     /\ MediaCompiles(css)) =>
        IF \A i \in 1..Len(StepKeys(KeyframesOf(css))) :
                IsFromTo(StepKeys(KeyframesOf(css))[i])
                    \/ IsPercentage(StepKeys(KeyframesOf(css))[i])
        THEN /\ created.ok
             /\ \A i \in 1..Len(StepKeys(KeyframesOf(css))) :
                    Contains(created.text,
                             <<"\n", " ", " ">> \o EmittedStep(StepKeys(KeyframesOf(css))[i])
                                \o <<" ", "{", "\n">>)
        ELSE /\ ~created.ok
             /\ created.text = <<>>
             /\ created.error = "Invalid keyframe step. Use \"from\", \"to\", or \"NN%\"."

C17_Witness ==
    /\ Created
    /\ Has(css, <<"c", "l", "a", "s", "s">>)
    /\ StepKeys(KeyframesOf(css)) = << <<"f", "r", "o", "m">>, <<"5", "0", "%">>, <<"e", "n", "d">> >>
    /\ ~created.ok
    /\ created.error = "Invalid keyframe step. Use \"from\", \"to\", or \"NN%\"."

C17_WitnessAccepted ==
    /\ Created /\ created.ok
    /\ StepKeys(KeyframesOf(css)) = << <<"F", "R", "O", "M">>, <<"1", "0", "0", "%">> >>
    /\ Contains(created.text, <<"\n", " ", " ", "f", "r", "o", "m", " ", "{", "\n", " ", " ", " ", " ", "c", "o", "l", "o", "u", "r", ":", " ", "g", "r", "e", "y", ";", "\n", " ", " ", "}", "\n", " ", " ", "1", "0", "0", "%", " ", "{", "\n">>)

\* The lines "name: value;" of a step, as parseProperties resolves them.
StepLines(d) ==
    join([i \in 1..Len(d) |->
            <<" ", " ", " ", " ">> \o parseProperties(d[i][1], d[i][2]).propKey \o <<":", " ">>
                \o parseProperties(d[i][1], d[i][2]).propValue \o <<";">>], <<"\n">>)

\* The block @keyframes <name> { ... } of a keyframes object whose step keys
\* are all accepted: one step block per step key, in config order.
KeyframesBlockOf(k) ==
    <<"@", "k", "e", "y", "f", "r", "a", "m", "e", "s", " ">> \o Get(k, <<"n", "a", "m", "e">>).s \o <<" ", "{", "\n">>
        \o join([i \in 1..Len(StepKeys(k)) |->
                    <<" ", " ">> \o EmittedStep(StepKeys(k)[i]) \o <<" ", "{", "\n">>
                        \o StepLines(Get(k, StepKeys(k)[i]).o) \o <<"\n", " ", " ", "}">>], <<"\n">>)
        \o <<"\n", "}">>

AllStepsAccepted(k) ==
    \A i \in 1..Len(StepKeys(k)) :
        IsFromTo(StepKeys(k)[i]) \/ IsPercentage(StepKeys(k)[i])

\* C18: a config whose only key is keyframes compiles to the single block
\* @keyframes <name> { ... } with one step block per step key in config
\* order, each holding the declarations of the step resolved by
\* parseProperties (opacity 0 emitted as 0, opacity 1 as 1); the output
\* contains no other rule block.
C18_OnlyKeyframes ==
    (/\ Created
     /\ Len(css) = 1 /\ HasKeyframes(css)
     /\ ~Nameless(KeyframesOf(css)) /\ AllStepsAccepted(KeyframesOf(css))) =>
        /\ created.ok
        /\ created.text = KeyframesBlockOf(KeyframesOf(css))
        /\ CountOf(created.text, <<"{">>) = 1 + Len(StepKeys(KeyframesOf(css)))

\* The config without its media and keyframes keys, except the key r.
OnlyBlock(o, r) ==
    SelectSeq(o, LAMBDA e : e[1] \notin ({ <<"m", "e", "d", "i", "a">>, <<"k", "e", "y", "f", "r", "a", "m", "e", "s">> } \ {r}))

\* The part of text that follows its prefix.
After(prefix, text) == SubSeq(text, Len(prefix) + 1, Len(text))

\* text is the base rule, then the part that create appends to the base rule
\* for the media key alone, then the part it appends for the keyframes key
\* alone.
InOrder(text, base, withMedia, withKeyframes) ==
    /\ IsPrefix(base, withMedia)
    /\ IsPrefix(base, withKeyframes)
    /\ text = base \o After(base, withMedia) \o After(base, withKeyframes)
    /\ CountOf(text, base) = 1

\* C19: the text returned by create for one config is the concatenation, in
\* this order, of the base rule, then the media block if the config has a
\* media object, then the keyframes block if it has a keyframes object; each
\* of the three appears at most once.
C19_BlocksInOrder ==
    (Created /\ created.ok) =>
        /\ InOrder(created.text,
                   create(OnlyBlock(css, <<>>)).text,
                   create(OnlyBlock(css, <<"m", "e", "d", "i", "a">>)).text,
                   create(OnlyBlock(css, <<"k", "e", "y", "f", "r", "a", "m", "e", "s">>)).text)
        /\ CountOf(created.text, <<"\n", "@", "m", "e", "d", "i", "a", " ">>) = (IF HasMedia(css) THEN 1 ELSE 0)
        /\ CountOf(created.text, <<"@", "k", "e", "y", "f", "r", "a", "m", "e", "s", " ">>) = (IF HasKeyframes(css) THEN 1 ELSE 0)
        /\ HasMedia(css) =>
                IsPrefix(<<"\n", "@", "m", "e", "d", "i", "a", " ">>,
                         After(create(OnlyBlock(css, <<>>)).text, created.text))
        /\ (~HasMedia(css) /\ HasKeyframes(css)) =>
                IsPrefix(<<"@", "k", "e", "y", "f", "r", "a", "m", "e", "s", " ">>,
                         After(create(OnlyBlock(css, <<>>)).text, created.text))

C19_Witness ==
    /\ Created /\ created.ok
    /\ Has(css, <<"c", "l", "a", "s", "s">>) /\ Len(Declarations(css)) = 1
    /\ HasMedia(css) /\ HasKeyframes(css)
    /\ Contains(created.text, <<"}", "\n", "\n", "@", "m", "e", "d", "i", "a", " ", "(", "m", "a", "x", "-", "w", "i", "d", "t", "h", ":", " ", "6", "0", "0", "p", "x", ")", " ", "{">>)
    /\ Contains(created.text, <<"\n", " ", " ", "}", "\n", "}", "@", "k", "e", "y", "f", "r", "a", "m", "e", "s", " ", "f", "a", "d", "e", "-", "i", "n", " ", "{", "\n">>)


\* The property names and values that parseProperties resolves for the
\* declarations of every step of a keyframes object.
StepsResolved(k) ==
    UNION { Resolved(Get(k, StepKeys(k)[i]).o) : i \in 1..Len(StepKeys(k)) }

\* Every declaration of a config: of its base rule, of its media object
\* without the breakpoint keys, and of the steps of its keyframes object.
AllResolved(o) ==
    Resolved(o)
        \cup (IF HasMedia(o)
              THEN Resolved(SelectSeq(MediaOf(o), LAMBDA e : ~EndsWithBp(e[1])))
              ELSE {})
        \cup (IF HasKeyframes(o) THEN StepsResolved(KeyframesOf(o)) ELSE {})

\* C26: dialect substitution is applied to the property name and the value
\* of every declaration the compiler emits: declarations of the base rule,
\* declarations inside a media block and declarations inside keyframes step
\* blocks alike, so a step {colour: "grey"} is emitted as color: gray.
C26_DialectEverywhere ==
    (Created /\ created.ok) =>
        /\ \A p \in AllResolved(css) :
                Contains(created.text,
                         <<" ", " ">> \o Standard(p.propKey) \o <<":", " ">>
                            \o Standard(p.propValue) \o <<";">>)
        /\ \A x \in Localized :
                /\ ~Contains(created.text, <<" ", " ">> \o x \o <<":", " ">>)
                /\ ~Contains(created.text, <<":", " ">> \o x \o <<";">>)

\* C27: create never modifies its input: after a call, whether it returned
\* or raised, the config object, its nested media object (including its
\* breakpoint key) and its nested keyframes object (including name) hold
\* the same keys and values as before the call.
C27_InputNotModified == Created => cssAfter = css

C27_Witness ==
    /\ Created /\ created.ok
    /\ HasMedia(css) /\ BpKeys(MediaOf(css)) # {}
    /\ HasKeyframes(css) /\ Has(KeyframesOf(css), <<"n", "a", "m", "e">>)
    /\ BpKeys(MediaOf(cssAfter)) = BpKeys(MediaOf(css))
    /\ Has(KeyframesOf(cssAfter), <<"n", "a", "m", "e">>)

C27_WitnessRaised ==
    /\ Created /\ ~created.ok
    /\ HasMedia(css) /\ BpKeys(MediaOf(css)) # {}
    /\ BpKeys(MediaOf(cssAfter)) = BpKeys(MediaOf(css))
-----------------------------------------------------------------------------
(* Properties of the component.                                            *)

\* The configs among the entries of a CSS value, to any nesting depth.
RECURSIVE ConfigsOf(_)
ConfigsOf(v) ==
    IF v.t = "array" THEN UNION { ConfigsOf(v.a[i]) : i \in 1..Len(v.a) }
    ELSE IF v.t = "object" THEN {v}
    ELSE {}

\* A config whose compilation raises an error: its media object has no
\* breakpoint key, or its keyframes object has no name or a bad step key.
Malformed(o) ==
    \/ ~MediaCompiles(o)
    \/ /\ HasKeyframes(o)
       /\ Nameless(KeyframesOf(o)) \/ ~AllStepsAccepted(KeyframesOf(o))

ConfigErrors ==
    { "Media config must include a *Bp key",
      "Keyframes config must include a name",
      "Invalid keyframe step. Use \"from\", \"to\", or \"NN%\"." }

\* C20: when compiling any config of a render pass raises an error, render
\* (or update) raises it to its caller, the shadow root content is left
\* exactly as it was before the call, no partial stylesheet built from the
\* other configs is injected, and afterRender is not invoked.
C20_FailedRenderLeavesShadowRoot ==
    [][(called' # "" /\ \E c \in ConfigsOf(styles') : Malformed(c.o)) =>
            /\ thrown' \in ConfigErrors
            /\ shadowRoot' = shadowRoot
            /\ \A i \in 1..Len(steps') :
                    steps'[i] \notin {"createTemplate", "innerHTML", "afterRender"}]_vars

C20_Witness ==
    /\ called = "render"
    /\ hooks = {"beforeRender", "afterRender"}
    /\ styles = Arr(<<GoodRule, BadMedia>>)
    /\ thrown = "Media config must include a *Bp key"
    /\ shadowRoot = createTemplate(<<"<", "p", ">", "a", "<", "/", "p", ">">>, <<"p", " ", "{", "c", "o", "l", "o", "r", ":", " ", "r", "e", "d", ";", "}", "\n", "\n", ".", "b", "o", "x", " ", "{", "\n", " ", " ", "p", "a", "d", "d", "i", "n", "g", ":", " ", "1", "0", "p", "x", ";", "}", "\n">>)
    /\ steps = <<"beforeRender", "createHTML", "createCSS", "compileCSSObjects">>


\* The entries of a CSS value in depth-first left-to-right order: a value
\* that is no array is its own single entry.
RECURSIVE EntriesOf(_)
EntriesOf(v) ==
    IF v.t # "array" THEN <<v>>
    ELSE IF v.a = <<>> THEN <<>>
    ELSE EntriesOf(Arr(SubSeq(v.a, 1, Len(v.a) - 1))) \o EntriesOf(v.a[Len(v.a)])

\* What an entry contributes: a string itself, a config create(config).
TextOf(entry) == IF entry.t = "string" THEN entry.s ELSE create(entry.o).text

RECURSIVE JoinedByNewline(_)
JoinedByNewline(texts) ==
    IF texts = <<>> THEN <<>>
    ELSE IF Len(texts) = 1 THEN texts[1]
    ELSE texts[1] \o <<"\n">> \o JoinedByNewline(Tail(texts))

Compiles(entry) == entry.t = "string" \/ create(entry.o).ok

\* C21: compileCSSObjects accepts one config or an array of configs and
\* strings, nested to any depth: when every config compiles, its result is
\* the texts of the entries in depth-first left-to-right order joined by a
\* newline, where a config contributes create(config) and a string itself;
\* a single config gives the same text as the one-element array holding it.
C21_CompileCSSObjects ==
    (called # "" /\ \A i \in 1..Len(EntriesOf(styles)) : Compiles(EntriesOf(styles)[i])) =>
        /\ compiledCSS =
              Return(JoinedByNewline([i \in 1..Len(EntriesOf(styles)) |->
                                          TextOf(EntriesOf(styles)[i])]))
        /\ styles.t = "object" => compiledCSS = compileCSSObjects(Arr(<<styles>>))

C21_Witness ==
    /\ called = "render"
    /\ styles = Arr(<<GoodRule, Arr(<<Arr(<<RawCSS, GoodRule>>), RawCSS>>)>>)
    /\ compiledCSS = Return(<<"\n", ".", "b", "o", "x", " ", "{", "\n", " ", " ", "p", "a", "d", "d", "i", "n", "g", ":", " ", "1", "0", "p", "x", ";", "}", "\n", "\n", "p", " ", "{", "c", "o", "l", "o", "r", ":", " ", "r", "e", "d", ";", "}", "\n", "\n", ".", "b", "o", "x", " ", "{", "\n", " ", " ", "p", "a", "d", "d", "i", "n", "g", ":", " ", "1", "0", "p", "x", ";", "}", "\n", "\n", "p", " ", "{", "c", "o", "l", "o", "r", ":", " ", "r", "e", "d", ";", "}">>)

C21_WitnessSingle ==
    /\ called = "update"
    /\ styles = GoodRule
    /\ compiledCSS = Return(<<"\n", ".", "b", "o", "x", " ", "{", "\n", " ", " ", "p", "a", "d", "d", "i", "n", "g", ":", " ", "1", "0", "p", "x", ";", "}", "\n">>)

\* An optional hook runs if the subclass implements it.
IfImplemented(hook) == IF hook \in hooks THEN <<hook>> ELSE <<>>

\* update calls the hook only for the argument that was not supplied;
\* render has no arguments.
UnlessSupplied(n, hook) ==
    IF called = "render" \/ supplied[n] = Undefined THEN <<hook>> ELSE <<>>

\* C25: each render that completes runs its steps in this order, each
\* exactly once: beforeRender, createHTML, createCSS, compilation of the
\* CSS, injection into the shadow root, afterRender; update follows the
\* same order and calls createHTML or createCSS only for the argument that
\* was not supplied.
C25_RenderOrder ==
    (called # "" /\ thrown = "") =>
        steps = IfImplemented("beforeRender")
                    \o UnlessSupplied(1, "createHTML")
                    \o UnlessSupplied(2, "createCSS")
                    \o <<"compileCSSObjects", "createTemplate", "innerHTML">>
                    \o IfImplemented("afterRender")

\* C22: for one component instance and one key, after any sequence of
\* fetchOnce calls and re-renders the loader has been invoked at most once:
\* every call after the one that invoked it returns the same cached entry
\* without invoking a loader, while the load is pending, after it resolved
\* and after it rejected.
C22_LoaderAtMostOnce ==
    /\ [](\A k \in FetchKeys : loaderCalls[k] <= 1)
    /\ [][(called' = "fetchOnce" /\ loaderCalls[fetched'[1]] >= 1) =>
            /\ loaderCalls' = loaderCalls
            /\ asyncStore' = asyncStore
            /\ fetched'[2] = <<"asyncStore", fetched'[1]>>]_vars

\* A call that returned after the load was rejected.
C22_Witness ==
    /\ called = "fetchOnce"
    /\ fetched = <<"fact", <<"asyncStore", "fact">> >>
    /\ loaderCalls["fact"] = 1
    /\ mapGet(loads, "fact").loader = "rejected"
    /\ mapGet(asyncStore, "fact") =
            [value |-> Undefined, loading |-> FALSE, error |-> Text("offline")]

\* A call that returned after the load was resolved.
C22_WitnessResolved ==
    /\ called = "fetchOnce"
    /\ fetched = <<"user", <<"asyncStore", "user">> >>
    /\ loaderCalls["user"] = 1
    /\ mapGet(asyncStore, "user") =
            [value |-> Num(10), loading |-> FALSE, error |-> Undefined]

\* C30: in every reachable state a fetchOnce entry is either loading
\* (loading = true, value and error undefined) or settled (loading = false),
\* and a settled entry has error set exactly when its loader rejected: after
\* the loader resolved, error is undefined and value is the result, also when
\* the re-render triggered by the resolution raises an error.
C30_EntryStates ==
    \A e \in asyncStore :
        /\ e[2].loading => (e[2].value = Undefined /\ e[2].error = Undefined)
        /\ ~e[2].loading =>
                (e[2].error # Undefined <=> mapGet(loads, e[1]).loader = "rejected")
        /\ (~e[2].loading /\ mapGet(loads, e[1]).loader = "resolved") =>
                (e[2].error = Undefined /\ e[2].value = mapGet(loads, e[1]).result)

\* The listeners registered through subscribe that are attached to the
\* element for an event name.
AttachedFor(name) == { a \in attached : a.type = name }

SameOptions == \A i, j \in 1..Len(subs) : subs[i].capture = subs[j].capture

\* C23: after any sequence of subscribe calls and calls of the unsubscribe
\* functions they returned (all with the same options) on one component, at
\* most one listener registered through subscribe is attached to the element
\* for each event name.
C23_OneListenerPerName ==
    SameOptions => \A name \in SubNames : Cardinality(AttachedFor(name)) <= 1

\* The listeners that were subscribed with autoCleanup = true.
AutoCleanup(a) == subs[a.callback].autoCleanup

\* C24: after disconnectedCallback, whatever sequence of subscribe and
\* unsubscribe calls came before, no listener that was subscribed with
\* autoCleanup = true is still attached to the element, the list of stored
\* unsubscribe functions is empty, and the mounted flag is false.
C24_DisconnectCleansUp ==
    called = "disconnectedCallback" =>
        /\ \A a \in attached : ~AutoCleanup(a)
        /\ unsubscribers_ = <<>>
        /\ mounted = FALSE

\* A connected component with two listeners subscribed with autoCleanup for
\* one event name and a third one without it, which stays attached.
C24_Witness ==
    /\ called = "disconnectedCallback"
    /\ shadowRoot # <<>>
    /\ Len(subs) = 3
    /\ \A i \in 1..2 : subs[i] = [name |-> "ping", capture |-> TRUE, autoCleanup |-> TRUE]
    /\ subs[3] = [name |-> "pong", capture |-> FALSE, autoCleanup |-> FALSE]
    /\ attached = { [type |-> "pong", callback |-> 3, capture |-> FALSE] }

Rendered(s) == \E i \in 1..Len(s) : s[i] = "innerHTML" \/ s[i] = "compileCSSObjects"

\* C28: while a component stays mounted, further connectedCallback calls do
\* nothing: between two disconnectedCallback calls render is triggered by
\* connectedCallback at most once, and the first connectedCallback after a
\* disconnectedCallback (or after construction) renders again.
C28_ConnectRendersOnce ==
    /\ [](connectRenders <= 1)
    /\ [][called' = "connectedCallback" =>
            IF connectRenders = 0
            THEN Rendered(steps') /\ mounted'
            ELSE /\ ~Rendered(steps')
                 /\ UNCHANGED <<shadowRoot, mounted, fields, properties, accessors>>]_vars

\* A connectedCallback that rendered after an assignment through a setter:
\* the component was connected, disconnected and connected again.
C28_Witness ==
    /\ called = "connectedCallback"
    /\ Rendered(steps)
    /\ assigned # <<>>
    /\ connectRenders = 1

\* A connectedCallback on a mounted component.
C28_WitnessMounted ==
    /\ called = "connectedCallback"
    /\ steps = <<>>
    /\ mounted
    /\ shadowRoot # <<>>

\* a === b as the claim C29 uses it, for primitive values.
StrictlyEqual(a, b) == a = b /\ b # NaN

Occurrences(s, x) == Cardinality({ i \in 1..Len(s) : s[i] = x })

\* The setter call <<key, slot, value>> left the component as it was.
NothingChanged ==
    UNCHANGED <<shadowRoot, properties, fields, accessors, seen, mounted,
                styles, compiledCSS>>

\* C29: assigning a reactive property a value strictly equal to its current
\* value changes no state and triggers no update; assigning a different
\* value stores it as the current value and triggers exactly one update,
\* during which the getter already returns the new value.
C29_SetterUpdates ==
    [][called' = "set" =>
        IF StrictlyEqual(mapGet(properties, assigned'[1])[assigned'[2]], assigned'[3])
        THEN NothingChanged /\ ~Rendered(steps')
        ELSE /\ mapGet(properties', assigned'[1])[assigned'[2]] = assigned'[3]
             /\ Occurrences(steps', "beforeRender") = 1
             /\ Occurrences(steps', "compileCSSObjects") = 1
             /\ mapGet(seen', assigned'[1])[assigned'[2]] = assigned'[3]]_vars

\* The value 1 was assigned to a property whose value was not 1.
C29_Witness ==
    /\ called = "set"
    /\ assigned = <<"count", "current", Num(10)>>
    /\ mapGet(properties, "count").current = Num(10)
    /\ mapGet(seen, "count").current = Num(10)
    /\ Rendered(steps)
    /\ thrown = ""

\* The value 1 was assigned to a property whose value was 1 already.
C29_WitnessEqual ==
    /\ called = "set"
    /\ assigned = <<"count", "current", Num(10)>>
    /\ mapGet(properties, "count").current = Num(10)
    /\ steps = <<>>
=============================================================================
